---- MODULE Spec2Model ----
(***************************************************************************)
(* SafeCompile static-analysis front end: the tokenizer of src/lexer.py    *)
(* (tokenize_code over token_regex) and the recursive-descent parser of    *)
(* src/parser_custom.py (class Parser), and the arithmetic-risk heuristic  *)
(* and the aggregation of findings of src/analyze.py, modelled as state    *)
(* machines.                                                               *)
(*                                                                         *)
(* LexSpec runs tokenize_code over bounded source texts, one regex match   *)
(* per step.  Spec runs Parser(tokens).parse() over bounded token          *)
(* sequences, one block of straight-line code per step, with an explicit   *)
(* call stack for the recursive descent.  HeuristicSpec and DedupSpec run   *)
(* the heuristic and the aggregation of findings; ConcurrentSpec runs two  *)
(* invocations interleaved, RepeatSpec runs the heuristic call after call, *)
(* and AnalyzeSpec runs analyze_code from the source text to the final     *)
(* list of findings.                                                       *)
(***************************************************************************)
EXTENDS Integers, Sequences, FiniteSets, TLC

VARIABLES
  \* ---- tokenize_code (src/lexer.py) ----
  code,          \* the source text, a sequence of one-character strings
  pos,           \* position at which finditer searches for the next match
  after_empty,   \* finditer: the previous match was empty and ended at pos
  lex_tokens,    \* the local list `tokens` of tokenize_code
  lex_starts,    \* match.start() of each emitted token (history)
  line_num,      \* the local `line_num`
  consumed,      \* concatenation of match.group() of every match so far (history)
  lex_pc,        \* "scan" inside the for loop, "done" after return

  \* ---- Parser (src/parser_custom.py) ----
  tokens,                    \* self.tokens
  current_token_index,       \* self.current_token_index
  current_token,             \* self.current_token (None at end of tokens)
  warnings,                  \* self.warnings
  insecure_function_issues,  \* self.insecure_function_issues
  parse_tree_root,           \* self.parse_tree_root
  stack,                     \* call stack of the recursive descent, top first
  ret,                       \* value returned by the call that ended last
  status,                    \* "running", "returned" (parse() returned) or "raised"

  \* ---- _analyze_arithmetic_operations (src/analyze.py) ----
  lines,            \* the local `lines`: code.splitlines()
  input_variables,  \* the local set `input_variables`
  vulnerabilities,  \* the local list `vulnerabilities`
  arith_line,       \* line_num of the for loop under way (1-based)
  arith_pc,         \* "seed" in the first loop, "scan" in the second, "done" after return

  \* ---- analyze_code and _deduplicate_findings (src/analyze.py) ----
  all_findings,     \* the local list `all_findings` (`results` of _deduplicate_findings)
  final_findings,   \* the local `final_findings`
  analyze_pc,       \* the layer of analyze_code under way

  \* ---- two invocations side by side ----
  other,            \* the state of the invocation that is not running now
  solo,             \* what the first invocation's work gave when run alone, or the
                    \* taint set of the call before this one (history)
  active            \* 1 or 2, the invocation that is running; 0 while there is one only

lexvars == <<code, pos, after_empty, lex_tokens, lex_starts, line_num, consumed, lex_pc>>
parservars == <<tokens, current_token_index, current_token, warnings,
                insecure_function_issues, parse_tree_root, stack, ret, status>>
arithvars == <<lines, input_variables, vulnerabilities, arith_line, arith_pc>>
analyzevars == <<all_findings, final_findings, analyze_pc, other, solo, active>>
vars == <<lexvars, parservars, arithvars, analyzevars>>

\* Python's None.
None == [py |-> "None"]

Min(S) == CHOOSE m \in S : \A n \in S : m <= n

(***************************************************************************)
(*                       src/lexer.py : token_patterns                     *)
(***************************************************************************)

NL == "\n"
BS == "\\"
DQ == "\""
SQ == "'"

Letters ==
  {"a", "b", "c", "d", "e", "f", "g", "h", "i", "j", "k", "l", "m", "n", "o", "p", "q",
   "r", "s", "t", "u", "v", "w", "x", "y", "z", "A", "B", "C", "D", "E", "F", "G", "H",
   "I", "J", "K", "L", "M", "N", "O", "P", "Q", "R", "S", "T", "U", "V", "W", "X", "Y", "Z"}
Digits == {"0", "1", "2", "3", "4", "5", "6", "7", "8", "9"}
HexDigits == Digits \cup {"a", "b", "c", "d", "e", "f", "A", "B", "C", "D", "E", "F"}
\* \w
WordChars == Letters \cup Digits \cup {"_"}
\* \s
Whitespace == {" ", "\t", NL, "\r", "\f"}
\* [{}\[\]();,\.]
SeparatorChars == {"{", "}", "[", "]", "(", ")", ";", ",", "."}

KeywordWords ==
  <<
    <<"a","l","i","g","n","a","s">>, <<"a","l","i","g","n","o","f">>, <<"a","n","d">>,
    <<"a","n","d","_","e","q">>, <<"a","s","m">>, <<"a","u","t","o">>,
    <<"b","i","t","a","n","d">>, <<"b","i","t","o","r">>, <<"b","o","o","l">>,
    <<"b","r","e","a","k">>, <<"c","a","s","e">>, <<"c","a","t","c","h">>, <<"c","h","a","r">>,
    <<"c","h","a","r","1","6","_","t">>, <<"c","h","a","r","3","2","_","t">>,
    <<"c","l","a","s","s">>, <<"c","o","m","p","l">>, <<"c","o","n","s","t">>,
    <<"c","o","n","s","t","e","x","p","r">>, <<"c","o","n","s","t","_","c","a","s","t">>,
    <<"c","o","n","t","i","n","u","e">>, <<"d","e","c","l","t","y","p","e">>,
    <<"d","e","f","a","u","l","t">>, <<"d","e","l","e","t","e">>, <<"d","o">>,
    <<"d","o","u","b","l","e">>, <<"d","y","n","a","m","i","c","_","c","a","s","t">>,
    <<"e","l","s","e">>, <<"e","n","u","m">>, <<"e","x","p","l","i","c","i","t">>,
    <<"e","x","p","o","r","t">>, <<"e","x","t","e","r","n">>, <<"f","a","l","s","e">>,
    <<"f","l","o","a","t">>, <<"f","o","r">>, <<"f","r","i","e","n","d">>, <<"g","o","t","o">>,
    <<"i","f">>, <<"i","n","l","i","n","e">>, <<"i","n","t">>, <<"l","o","n","g">>,
    <<"m","u","t","a","b","l","e">>, <<"n","a","m","e","s","p","a","c","e">>, <<"n","e","w">>,
    <<"n","o","e","x","c","e","p","t">>, <<"n","u","l","l","p","t","r">>,
    <<"o","p","e","r","a","t","o","r">>, <<"o","r">>, <<"o","r","_","e","q">>,
    <<"p","r","i","v","a","t","e">>, <<"p","r","o","t","e","c","t","e","d">>,
    <<"p","u","b","l","i","c">>, <<"r","e","g","i","s","t","e","r">>,
    <<"r","e","i","n","t","e","r","p","r","e","t","_","c","a","s","t">>,
    <<"r","e","t","u","r","n">>, <<"s","h","o","r","t">>, <<"s","i","g","n","e","d">>,
    <<"s","i","z","e","o","f">>, <<"s","t","a","t","i","c">>,
    <<"s","t","a","t","i","c","_","a","s","s","e","r","t">>,
    <<"s","t","a","t","i","c","_","c","a","s","t">>, <<"s","t","r","u","c","t">>,
    <<"s","w","i","t","c","h">>, <<"t","e","m","p","l","a","t","e">>, <<"t","h","i","s">>,
    <<"t","h","r","e","a","d","_","l","o","c","a","l">>, <<"t","h","r","o","w">>,
    <<"t","r","u","e">>, <<"t","r","y">>, <<"t","y","p","e","d","e","f">>,
    <<"t","y","p","e","i","d">>, <<"t","y","p","e","n","a","m","e">>, <<"u","n","i","o","n">>,
    <<"u","n","s","i","g","n","e","d">>, <<"u","s","i","n","g">>,
    <<"v","i","r","t","u","a","l">>, <<"v","o","i","d">>, <<"v","o","l","a","t","i","l","e">>,
    <<"w","c","h","a","r","_","t">>, <<"w","h","i","l","e">>, <<"x","o","r">>,
    <<"x","o","r","_","e","q">>
  >>

PreprocessorWords ==
  <<
    <<"i","n","c","l","u","d","e">>, <<"d","e","f","i","n","e">>, <<"i","f","d","e","f">>,
    <<"i","f","n","d","e","f">>, <<"e","n","d","i","f">>, <<"p","r","a","g","m","a">>,
    <<"u","n","d","e","f">>, <<"e","l","i","f">>, <<"e","l","s","e">>
  >>

OperatorLexemes ==
  <<
    <<">",">","=">>, <<"<","<","=">>, <<"+","+">>, <<"-","-">>, <<"-",">","*">>, <<"-",">">>,
    <<"=","=">>, <<"!","=">>, <<">","=">>, <<"<","=">>, <<"&","&">>, <<"|","|">>, <<"<","<">>,
    <<">",">">>, <<":",":">>, <<"+","=">>, <<"-","=">>, <<"*","=">>, <<"/","=">>, <<"%","=">>,
    <<"&","=">>, <<"|","=">>, <<"^","=">>, <<"~">>, <<"!">>, <<"=">>, <<"+">>, <<"-">>,
    <<"*">>, <<"/">>, <<"%">>, <<"<">>, <<">">>, <<"^">>, <<"&">>, <<"|">>, <<"?">>, <<":">>
  >>

\* The character at p, or "" outside the text.
CharAt(s, p) == IF p \in 1..Len(s) THEN s[p] ELSE ""

\* \b between positions p-1 and p.
Boundary(s, p) == (CharAt(s, p - 1) \in WordChars) # (CharAt(s, p) \in WordChars)

StartsWith(s, p, w) ==
  /\ p + Len(w) - 1 <= Len(s)
  /\ \A k \in 1..Len(w) : s[p + k - 1] = w[k]

\* End (exclusive) of the longest run of characters of S that starts at p.
RECURSIVE RunEnd(_, _, _)
RunEnd(s, p, S) == IF p <= Len(s) /\ s[p] \in S THEN RunEnd(s, p + 1, S) ELSE p

\* End (exclusive) of [^\n]* and of .* started at p.
RECURSIVE LineEnd(_, _)
LineEnd(s, p) == IF p <= Len(s) /\ s[p] # NL THEN LineEnd(s, p + 1) ELSE p

\* (w1|w2|...) : length of the first alternative that matches at p, or -1;
\* with wordEnd the alternation is followed by \b.
FirstAlternativeLen(s, p, words, wordEnd) ==
  LET hits == {k \in 1..Len(words) :
                 /\ StartsWith(s, p, words[k])
                 /\ wordEnd => Boundary(s, p + Len(words[k]))}
  IN  IF hits = {} THEN -1 ELSE Len(words[Min(hits)])

\* Each XLen(s, p) is the length of the match of alternative X of token_regex
\* at position p, or -1 when it does not match there.

\* //[^\n]*|/\*[\s\S]*?\*/
CommentLen(s, p) ==
  IF CharAt(s, p) = "/" /\ CharAt(s, p + 1) = "/"
    THEN LineEnd(s, p + 2) - p
  ELSE IF CharAt(s, p) = "/" /\ CharAt(s, p + 1) = "*"
    THEN LET ends == {q \in (p + 2)..(Len(s) - 1) : s[q] = "*" /\ s[q + 1] = "/"}
         IN  IF ends = {} THEN -1 ELSE Min(ends) + 2 - p
  ELSE -1

\* #\s*(include|define|...)\b.*
PreprocessorLen(s, p) ==
  IF CharAt(s, p) # "#" THEN -1
  ELSE LET q == RunEnd(s, p + 1, Whitespace)
           w == FirstAlternativeLen(s, q, PreprocessorWords, TRUE)
       IN  IF w = -1 THEN -1 ELSE LineEnd(s, q + w) - p

\* \b(alignas|...|xor_eq)\b
KeywordLen(s, p) ==
  IF Boundary(s, p) THEN FirstAlternativeLen(s, p, KeywordWords, TRUE) ELSE -1

\* \b[a-zA-Z_][a-zA-Z0-9_]*\b
IdentifierLen(s, p) ==
  IF Boundary(s, p) /\ CharAt(s, p) \in Letters \cup {"_"}
    THEN LET q == RunEnd(s, p, WordChars)
         IN  IF Boundary(s, q) THEN q - p ELSE -1
    ELSE -1

\* 0x[0-9a-fA-F]+|\b\d+(\.\d+)?([eE][-+]?\d+)?\b
NumberLen(s, p) ==
  IF CharAt(s, p) = "0" /\ CharAt(s, p + 1) = "x" /\ CharAt(s, p + 2) \in HexDigits
    THEN RunEnd(s, p + 2, HexDigits) - p
  ELSE IF ~(Boundary(s, p) /\ CharAt(s, p) \in Digits) THEN -1
  ELSE LET q1 == RunEnd(s, p, Digits)
           FracEnd(q) == IF CharAt(s, q) = "." /\ CharAt(s, q + 1) \in Digits
                           THEN RunEnd(s, q + 1, Digits) ELSE -1
           ExpEnd(q) == LET d == IF CharAt(s, q + 1) \in {"-", "+"} THEN q + 2 ELSE q + 1
                        IN  IF q # -1 /\ CharAt(s, q) \in {"e", "E"} /\ CharAt(s, d) \in Digits
                              THEN RunEnd(s, d, Digits) ELSE -1
           q2 == FracEnd(q1)
           \* greedy order: fraction and exponent, fraction, exponent, neither
           ends == <<ExpEnd(q2), q2, ExpEnd(q1), q1>>
           ok == {k \in 1..4 : ends[k] # -1 /\ Boundary(s, ends[k])}
       IN  IF ok = {} THEN -1 ELSE ends[Min(ok)] - p

\* '(\\.|[^\\'])'
CharLen(s, p) ==
  IF CharAt(s, p) # SQ THEN -1
  ELSE IF CharAt(s, p + 1) = BS
    THEN IF CharAt(s, p + 2) \notin {"", NL} /\ CharAt(s, p + 3) = SQ THEN 4 ELSE -1
  ELSE IF CharAt(s, p + 1) \notin {"", SQ} /\ CharAt(s, p + 2) = SQ THEN 3 ELSE -1

\* End (exclusive) of (\\.|[^\\"])* started at q.
RECURSIVE StringBodyEnd(_, _)
StringBodyEnd(s, q) ==
  IF CharAt(s, q) = BS /\ CharAt(s, q + 1) \notin {"", NL} THEN StringBodyEnd(s, q + 2)
  ELSE IF CharAt(s, q) \notin {"", BS, DQ} THEN StringBodyEnd(s, q + 1)
  ELSE q

\* "(\\.|[^\\"])*"
StringLen(s, p) ==
  IF CharAt(s, p) # DQ THEN -1
  ELSE LET q == StringBodyEnd(s, p + 1)
       IN  IF CharAt(s, q) = DQ THEN q + 1 - p ELSE -1

\* >>=|<<=|...|\?|\:
OperatorLen(s, p) == FirstAlternativeLen(s, p, OperatorLexemes, FALSE)

\* [{}\[\]();,\.]
SeparatorLen(s, p) == IF CharAt(s, p) \in SeparatorChars THEN 1 ELSE -1

\* \s* : one character too permissive
WhitespaceLenStar(s, p) == RunEnd(s, p, Whitespace) - p

\* [ \t]+ : blanks only, no line breaks
WhitespaceLenBlank(s, p) ==
  IF CharAt(s, p) \in {" ", "\t"} THEN RunEnd(s, p, {" ", "\t"}) - p ELSE -1

\* \s+
WhitespaceLen(s, p) ==
  IF CharAt(s, p) \in Whitespace THEN RunEnd(s, p, Whitespace) - p ELSE -1

\* .
UnknownLen(s, p) == IF CharAt(s, p) \notin {"", NL} THEN 1 ELSE -1

NoMatch == "NOMATCH"

\* token_patterns: the group names, in order.
token_patterns ==
  << "COMMENT", "PREPROCESSOR", "KEYWORD", "IDENTIFIER", "NUMBER", "CHAR", "STRING",
     "OPERATOR", "SEPARATOR", "WHITESPACE", "UNKNOWN" >>

\* Length of the match of the named group at p, or -1.
GroupLen(kind, s, p) ==
  CASE kind = "COMMENT"      -> CommentLen(s, p)
    [] kind = "PREPROCESSOR" -> PreprocessorLen(s, p)
    [] kind = "KEYWORD"      -> KeywordLen(s, p)
    [] kind = "IDENTIFIER"   -> IdentifierLen(s, p)
    [] kind = "NUMBER"       -> NumberLen(s, p)
    [] kind = "CHAR"         -> CharLen(s, p)
    [] kind = "STRING"       -> StringLen(s, p)
    [] kind = "OPERATOR"     -> OperatorLen(s, p)
    [] kind = "SEPARATOR"    -> SeparatorLen(s, p)
    [] kind = "WHITESPACE"   -> WhitespaceLen(s, p)
    [] kind = "UNKNOWN"      -> UnknownLen(s, p)

\* token_regex tried at p from group k on: the first group that matches with
\* at least minLen characters; kind NoMatch when none does.
RECURSIVE token_regex(_, _, _, _)
token_regex(s, p, minLen, k) ==
  IF k > Len(token_patterns) THEN [kind |-> NoMatch, len |-> -1]
  ELSE LET l == GroupLen(token_patterns[k], s, p)
       IN  IF l >= minLen THEN [kind |-> token_patterns[k], len |-> l]
           ELSE token_regex(s, p, minLen, k + 1)

\* The match finditer finds at p (an empty match is not taken right after an
\* empty match at the same place).
MatchAt(s, p, nonEmpty) == token_regex(s, p, IF nonEmpty THEN 1 ELSE 0, 1)

\* value.count('\n')
RECURSIVE CountNL(_)
CountNL(value) ==
  IF value = <<>> THEN 0
  ELSE (IF Head(value) = NL THEN 1 ELSE 0) + CountNL(Tail(value))

(***************************************************************************)
(*                       src/lexer.py : tokenize_code                      *)
(***************************************************************************)

\* the line is taken after the lexeme's own line breaks were added
TokenLineAfter(ln, value) == ln + CountNL(value)

\* The line stored in a token: line_num as it is when the token is appended.
TokenLine(ln, value) == ln

\* line_num = lines
NextLineNumReset(ln, value) == CountNL(value)

\* line_num += lines
NextLineNum(ln, value) == ln + CountNL(value)

\* One iteration of `for match in token_regex.finditer(code)`.
Scan ==
  /\ lex_pc = "scan"
  /\ pos <= Len(code)
  /\ \E m \in {MatchAt(code, pos, after_empty)} :
       IF m.kind = NoMatch
         THEN \* no group matches here: the search moves on one character
              /\ pos' = pos + 1
              /\ after_empty' = FALSE
              /\ UNCHANGED <<lex_tokens, lex_starts, line_num, consumed>>
         ELSE \E value \in {SubSeq(code, pos, pos + m.len - 1)} :
              /\ pos' = pos + m.len
              /\ after_empty' = (m.len = 0)
              /\ IF m.kind \notin {"WHITESPACE", "COMMENT"}
                   THEN /\ lex_tokens' = Append(lex_tokens,
                               [type |-> m.kind, value |-> value,
                                line |-> TokenLine(line_num, value)])
                        /\ lex_starts' = Append(lex_starts, pos)
                   ELSE UNCHANGED <<lex_tokens, lex_starts>>
              /\ line_num' = NextLineNum(line_num, value)
              /\ consumed' = consumed \o value
  /\ UNCHANGED <<code, lex_pc>>
  /\ UNCHANGED <<parservars, arithvars, analyzevars>>

\* `return tokens` once finditer is exhausted.
LexReturn ==
  /\ lex_pc = "scan"
  /\ pos > Len(code)
  /\ lex_pc' = "done"
  /\ UNCHANGED <<code, pos, after_empty, lex_tokens, lex_starts, line_num, consumed>>
  /\ UNCHANGED <<parservars, arithvars, analyzevars>>

(***************************************************************************)
(*                 src/parse_tree_node.py : ParseTreeNode                  *)
(***************************************************************************)

\* ParseTreeNode(name): a non-terminal node without children.
ParseTreeNode(name) ==
  [name |-> name, value |-> None, is_terminal |-> FALSE, children |-> <<>>]

\* The value of a node is None or a str: a str s is written Str(s) there, so
\* that the two can be told apart by comparison.
Str(s) == [py |-> "str", chars |-> s]

\* ParseTreeNode(token[0], value=token[1], is_terminal=True)
TerminalNode(tok) ==
  [name |-> tok.type, value |-> Str(tok.value), is_terminal |-> TRUE, children |-> <<>>]

\* node.add_child(child_node), for a child that is a ParseTreeNode; with None
\* for child_node the method raises TypeError (the actions test for it).
add_child(node, child_node) == [node EXCEPT !.children = Append(@, child_node)]

\* child.add_child(x) for the child added last to node: the parser keeps a
\* reference to a Parameters / ArraySize / Condition node it has already added.
add_to_last_child(node, x) ==
  [node EXCEPT !.children[Len(node.children)] = add_child(@, x)]

(***************************************************************************)
(*                    src/parser_custom.py : class Parser                  *)
(***************************************************************************)

\* parse(): the type keywords that start a function definition
FunctionTypeKeywords ==
  { <<"i","n","t">>, <<"v","o","i","d">>, <<"c","h","a","r">>, <<"f","l","o","a","t">>,
    <<"d","o","u","b","l","e">>, <<"l","o","n","g">>, <<"s","h","o","r","t">>,
    <<"u","n","s","i","g","n","e","d">>, <<"s","i","g","n","e","d">> }

\* parse_statement(): the type keywords that start a declaration
DeclarationTypeKeywords ==
  { <<"i","n","t">>, <<"c","h","a","r">>, <<"f","l","o","a","t">>, <<"d","o","u","b","l","e">>,
    <<"l","o","n","g">>, <<"s","h","o","r","t">>, <<"u","n","s","i","g","n","e","d">>,
    <<"s","i","g","n","e","d">> }

\* parse_statement(): the control-flow keywords
ControlKeywords ==
  { <<"i","f">>, <<"w","h","i","l","e">>, <<"f","o","r">> }

\* Parser.insecure_functions
insecure_functions ==
  { <<"g","e","t","s">>, <<"s","t","r","c","p","y">>, <<"s","t","r","c","a","t">>,
    <<"s","c","a","n","f">>, <<"s","p","r","i","n","t","f">>, <<"s","y","s","t","e","m">>,
    <<"e","v","a","l">>, <<"p","o","p","e","n">>, <<"v","s","p","r","i","n","t","f">>,
    <<"p","r","i","n","t","f">>, <<"m","a","l","l","o","c">>, <<"r","e","a","l","l","o","c">>,
    <<"c","a","l","l","o","c">> }

\* Parser.insecure_function_info.get(func_name): the (fix, cwe) pair, or None
insecure_function_info(func_name) ==
  IF func_name = <<"g","e","t","s">> THEN [fix |-> "use fgets()", cwe |-> "CWE-120"] ELSE
  IF func_name = <<"s","t","r","c","p","y">> THEN [fix |-> "use strncpy() with size limit", cwe |-> "CWE-120"] ELSE
  IF func_name = <<"s","t","r","c","a","t">> THEN [fix |-> "use strncat() with size limit", cwe |-> "CWE-120"] ELSE
  IF func_name = <<"s","c","a","n","f">> THEN [fix |-> "specify field width", cwe |-> "CWE-120"] ELSE
  IF func_name = <<"s","p","r","i","n","t","f">> THEN [fix |-> "use snprintf()", cwe |-> "CWE-120"] ELSE
  IF func_name = <<"s","y","s","t","e","m">> THEN [fix |-> "avoid executing external commands", cwe |-> "CWE-78"] ELSE
  IF func_name = <<"e","v","a","l">> THEN [fix |-> "avoid code injection", cwe |-> "CWE-94"] ELSE
  IF func_name = <<"p","o","p","e","n">> THEN [fix |-> "avoid executing external commands", cwe |-> "CWE-78"] ELSE
  IF func_name = <<"v","s","p","r","i","n","t","f">> THEN [fix |-> "use vsnprintf()", cwe |-> "CWE-120"] ELSE
  IF func_name = <<"p","r","i","n","t","f">> THEN [fix |-> "format string literal", cwe |-> "CWE-134"] ELSE
  IF func_name = <<"m","a","l","l","o","c">> THEN [fix |-> "check return value for NULL", cwe |-> "CWE-399"] ELSE
  IF func_name = <<"r","e","a","l","l","o","c">> THEN [fix |-> "check return value for NULL", cwe |-> "CWE-399"] ELSE
  IF func_name = <<"c","a","l","l","o","c">> THEN [fix |-> "check return value for NULL", cwe |-> "CWE-399"] ELSE
  None

\* expected_value=None
AnyValue == <<>>

LPAREN == <<"(">>
RPAREN == <<")">>
LBRACE == <<"{">>
RBRACE == <<"}">>
SEMI == <<";">>
LSQUARE == <<"[">>
RSQUARE == <<"]">>

\* The fields of self that the token helpers read and write: the cursor, the
\* current token and the warnings.  An action threads this record through the
\* helper calls of its code block and stores the result.
Self == [idx |-> current_token_index, cur |-> current_token, w |-> warnings]

\* Position of the current token in self.tokens (0-based); len(tokens) once
\* there is no current token.
CursorOf(c) == IF c.cur = None THEN c.idx ELSE c.idx - 1
Cursor == CursorOf(Self)

\* advance(): the state it leaves.
advance(c) ==
  IF c.idx < Len(tokens)
    THEN [c EXCEPT !.cur = tokens[c.idx + 1], !.idx = c.idx + 1]
    ELSE [c EXCEPT !.cur = None]

\* advance(): the value it returns, a node for the token it moved to, or None.
advance_result(c) ==
  IF c.idx < Len(tokens) THEN TerminalNode(tokens[c.idx + 1]) ELSE None

\* warn(message, line_num)
warn(c, message, line) ==
  [c EXCEPT !.w = Append(@, [line |-> line, message |-> message])]

\* self.current_token[2] if self.current_token else "EOF"
line_or_EOF(c) == IF c.cur # None THEN c.cur.line ELSE "EOF"

\* self.tokens[-1][2] if self.tokens else "EOF"
last_line_or_EOF == IF tokens # <<>> THEN tokens[Len(tokens)].line ELSE "EOF"

\* The test of match().
matches(c, expected_type, expected_value) ==
  /\ c.cur # None
  /\ c.cur.type = expected_type
  /\ (expected_value = AnyValue \/ c.cur.value = expected_value)

\* match(expected_type, expected_value): the state it leaves and the node it
\* returns (a node for the matched token itself, or None).
match(c, expected_type, expected_value) ==
  IF matches(c, expected_type, expected_value)
    THEN [c |-> advance(c), node |-> TerminalNode(c.cur)]
    ELSE [c |-> c, node |-> None]

\* expect(expected_type, expected_value, error_msg)
\* The message of its warning is an f-string whose text holds the replacement
\* field {self.current_token[1]}: it is evaluated whenever the message is
\* built, and raises TypeError when current_token is None (raised = TRUE).
expect(c, expected_type, expected_value, error_msg) ==
  IF matches(c, expected_type, expected_value)
    THEN [c |-> advance(c), node |-> TerminalNode(c.cur), raised |-> FALSE]
  ELSE IF c.cur = None
    THEN [c |-> c, node |-> None, raised |-> TRUE]
    ELSE [c |-> warn(c, error_msg, c.cur.line), node |-> None, raised |-> FALSE]

\* check_insecure_function(func_name, line_num): the list it leaves.
check_insecure_function(issues, func_name, line) ==
  LET info == insecure_function_info(func_name)
  IN  IF info # None
        THEN Append(issues, [function |-> func_name, line |-> line,
                             fix |-> info.fix, cwe |-> info.cwe,
                             source |-> "Custom Parser"])
        ELSE Append(issues, [function |-> func_name, line |-> line,
                             fix |-> "Consult documentation for secure alternatives.",
                             cwe |-> "N/A", source |-> "Custom Parser"])

\* ---- the call stack ----

Top == stack[1]

\* A frame of method fn entered in state c: its position, the node it builds,
\* the current token and the cursor at entry, and for a method with a
\* statement loop the cursor at the start of the iteration under way.
NewFrame(fn, pc, node, c) ==
  [fn |-> fn, pc |-> pc, node |-> node, tok |-> c.cur, mark |-> CursorOf(c), iter |-> -1]

SkipFrame(c) == NewFrame("skip_whitespace_and_comments", "loop", None, c)

At(fn, pc) ==
  /\ status = "running"
  /\ stack # <<>>
  /\ Top.fn = fn
  /\ Top.pc = pc

Update(c, stk, r, st, issues, root) ==
  /\ current_token_index' = c.idx
  /\ current_token' = c.cur
  /\ warnings' = c.w
  /\ stack' = stk
  /\ ret' = r
  /\ status' = st
  /\ insecure_function_issues' = issues
  /\ parse_tree_root' = root
  /\ UNCHANGED tokens
  /\ UNCHANGED <<lexvars, arithvars, analyzevars>>

\* Go on in the same method, with frame f.
Goto(c, f) ==
  Update(c, <<f>> \o Tail(stack), ret, status, insecure_function_issues, parse_tree_root)

\* Call a method (frame callee); the caller goes on with frame f afterwards.
Call(c, f, callee) ==
  Update(c, <<callee, f>> \o Tail(stack), ret, status, insecure_function_issues,
         parse_tree_root)

\* return value
Return(c, value) ==
  Update(c, Tail(stack), value, status, insecure_function_issues, parse_tree_root)

\* An exception leaves the method; nothing in the parser catches it.
Raise(c) ==
  Update(c, stack, ret, "raised", insecure_function_issues, parse_tree_root)

\* ---- skip_whitespace_and_comments() ----

Skippable(c) ==
  /\ c.cur # None
  /\ c.cur.type \in {"WHITESPACE", "PREPROCESSOR", "COMMENT"}

\* One iteration of the while loop.
SkipStep ==
  /\ At("skip_whitespace_and_comments", "loop")
  /\ Skippable(Self)
  /\ Goto(advance(IF current_token.type = "PREPROCESSOR"
                    THEN warn(Self, "Skipping preprocessor", current_token.line)
                    ELSE Self),
          Top)

\* The loop ends (no token, or `break`).
SkipReturn ==
  /\ At("skip_whitespace_and_comments", "loop")
  /\ ~Skippable(Self)
  /\ Return(Self, None)

\* ---- parse() ----

StartsFunction(c) ==
  /\ c.cur # None
  /\ c.cur.type = "KEYWORD"
  /\ c.cur.value \in FunctionTypeKeywords

\* the else branch does nothing
top_level_recovery_pass(c) == c

\* the else branch skips two tokens
top_level_recovery_two_tokens(c) ==
  advance(advance(warn(warn(c, "Invalid top-level construct", line_or_EOF(c)),
                       "Skipping unrecognized token", line_or_EOF(c))))

\* The else branch of the top-level loop: two warnings, then advance().
top_level_recovery(c) ==
  advance(warn(warn(c, "Invalid top-level construct", line_or_EOF(c)),
               "Skipping unrecognized token", line_or_EOF(c)))

\* skip_whitespace_and_comments(); program_pt_node = ParseTreeNode('Program')
ParseBegin ==
  /\ At("parse", "begin")
  /\ Call(Self, [Top EXCEPT !.pc = "loop", !.node = ParseTreeNode("Program")],
          SkipFrame(Self))

\* Top-level loop, a type keyword: parse_function_definition()
ParseLoopFunction ==
  /\ At("parse", "loop")
  /\ StartsFunction(Self)
  /\ Call(Self, [Top EXCEPT !.pc = "after_def", !.iter = Cursor],
          NewFrame("parse_function_definition", "header",
                   ParseTreeNode("FunctionDefinition"), Self))

\* ... its result is added if there is one; skip_whitespace_and_comments()
ParseAfterFunction ==
  /\ At("parse", "after_def")
  /\ Call(Self,
          [Top EXCEPT !.pc = "loop",
                      !.node = IF ret # None THEN add_child(@, ret) ELSE @],
          SkipFrame(Self))

\* Top-level loop, any other token: warn, skip it; skip_whitespace_and_comments()
ParseLoopSkip ==
  /\ At("parse", "loop")
  /\ current_token # None
  /\ ~StartsFunction(Self)
  /\ \E c \in {top_level_recovery(Self)} :
       Call(c, [Top EXCEPT !.iter = Cursor], SkipFrame(c))

\* parse() returns without storing the root
ParseReturnRootNotStored ==
  /\ At("parse", "loop")
  /\ current_token = None
  /\ Update(Self, <<>>, None, "returned", insecure_function_issues, parse_tree_root)

\* The loop ends: parse() returns (warnings, insecure_function_issues, root).
ParseReturn ==
  /\ At("parse", "loop")
  /\ current_token = None
  /\ Update(Self, <<>>, None, "returned", insecure_function_issues, Top.node)

\* ---- parse_function_definition() ----

\* type, name, '(' and the Parameters node
FuncDefHeader ==
  /\ At("parse_function_definition", "header")
  /\ LET e1 == expect(Self, "KEYWORD", AnyValue, "Syntax Error")
         e2 == expect(e1.c, "IDENTIFIER", AnyValue, "Syntax Error")
         e3 == expect(e2.c, "SEPARATOR", LPAREN, "Syntax Error")
     IN  IF e1.raised THEN Raise(e1.c)
         ELSE IF e1.node = None THEN Return(e1.c, None)
         ELSE IF e2.raised THEN Raise(e2.c)
         ELSE IF e2.node = None THEN Return(e2.c, None)
         ELSE IF e3.raised THEN Raise(e3.c)
         ELSE IF e3.node = None THEN Return(e3.c, None)
         ELSE Goto(e3.c,
                   [Top EXCEPT !.pc = "params",
                               !.node = add_child(add_child(add_child(add_child(
                                          @, e1.node), e2.node), e3.node),
                                          ParseTreeNode("Parameters"))])

InParameters(c) == c.cur # None /\ ~matches(c, "SEPARATOR", RPAREN)

\* One iteration of the parameter loop.
FuncDefParameter ==
  /\ At("parse_function_definition", "params")
  /\ InParameters(Self)
  /\ LET param_token_pt == advance_result(Self)
         c1 == advance(Self)
     IN  IF param_token_pt # None
           THEN Goto(c1, [Top EXCEPT !.node = add_to_last_child(@, param_token_pt)])
           ELSE Return(warn(c1, "Unclosed function parameters", last_line_or_EOF), None)

\* After the parameter loop: ')' and '{', then parse_function_body()
FuncDefAfterParams ==
  /\ At("parse_function_definition", "params")
  /\ ~InParameters(Self)
  /\ LET e1 == expect(Self, "SEPARATOR", RPAREN, "Syntax Error")
         e2 == expect(e1.c, "SEPARATOR", LBRACE, "Syntax Error")
     IN  IF e1.raised THEN Raise(e1.c)
         ELSE IF e1.node = None THEN Return(e1.c, None)
         ELSE IF e2.raised THEN Raise(e2.c)
         ELSE IF e2.node = None THEN Return(e2.c, None)
         ELSE Call(e2.c,
                   [Top EXCEPT !.pc = "after_body",
                               !.node = add_child(add_child(@, e1.node), e2.node)],
                   NewFrame("parse_function_body", "loop",
                            ParseTreeNode("FunctionBody"), e2.c))

\* The body's node is added and the definition returned, or None.
FuncDefAfterBody ==
  /\ At("parse_function_definition", "after_body")
  /\ Return(Self, IF ret # None THEN add_child(Top.node, ret) ELSE None)

\* ---- parse_function_body() ----

InBody(c) == c.cur # None /\ ~matches(c, "SEPARATOR", RBRACE)

\* Recovery after parse_statement() returned None: warn and advance().
body_recovery(c) ==
  advance(warn(c, "Skipping unparsable token in function body", line_or_EOF(c)))

\* Loop test true: skip_whitespace_and_comments()
BodyLoopEnter ==
  /\ At("parse_function_body", "loop")
  /\ InBody(Self)
  /\ Call(Self, [Top EXCEPT !.pc = "stmt", !.iter = Cursor], SkipFrame(Self))

\* statement_pt = self.parse_statement()
BodyCallStatement ==
  /\ At("parse_function_body", "stmt")
  /\ Call(Self, [Top EXCEPT !.pc = "after_stmt"],
          NewFrame("parse_statement", "begin", ParseTreeNode("Statement"), Self))

\* The statement is added, or a token is skipped unless it is '}' or the end.
BodyAfterStatement ==
  /\ At("parse_function_body", "after_stmt")
  /\ IF ret # None
       THEN Goto(Self, [Top EXCEPT !.pc = "loop", !.node = add_child(@, ret)])
       ELSE IF InBody(Self)
         THEN Goto(body_recovery(Self), [Top EXCEPT !.pc = "loop"])
         ELSE Goto(Self, [Top EXCEPT !.pc = "loop"])

\* Loop test false: expect '}'
BodyClose ==
  /\ At("parse_function_body", "loop")
  /\ ~InBody(Self)
  /\ LET e == expect(Self, "SEPARATOR", RBRACE, "Syntax Error")
     IN  IF e.raised THEN Raise(e.c)
         ELSE IF e.node = None
           THEN Return(warn(e.c, "Unclosed function body", last_line_or_EOF), None)
           ELSE Return(e.c, add_child(Top.node, e.node))

\* ---- parse_statement() ----

IsDeclaration(tok) ==
  tok # None /\ tok.type = "KEYWORD" /\ tok.value \in DeclarationTypeKeywords
\* no token is taken for `return`
IsReturnNever(tok) == FALSE

IsReturn(tok) ==
  tok # None /\ tok.type = "KEYWORD" /\ tok.value = <<"r","e","t","u","r","n">>
IsControl(tok) ==
  tok # None /\ tok.type = "KEYWORD" /\ tok.value \in ControlKeywords
IsExpressionStart(tok) ==
  /\ tok # None
  /\ \/ tok.type \in {"IDENTIFIER", "NUMBER", "STRING", "OPERATOR"}
     \/ tok.type = "SEPARATOR" /\ tok.value = LPAREN

\* expect ';' at the end of a declaration; the statement, or None
DeclarationEnd(c, statement_pt) ==
  LET e == expect(c, "SEPARATOR", SEMI, "Missing ';' in declaration")
  IN  IF e.raised THEN Raise(e.c)
      ELSE Return(e.c, IF e.node # None THEN add_child(statement_pt, e.node) ELSE None)

\* Declaration: the type keyword, the name, and '[' if an array size follows.
StmtDeclaration ==
  /\ At("parse_statement", "begin")
  /\ IsDeclaration(current_token)
  /\ LET type_token_pt == advance_result(Self)
         c1 == advance(Self)
         m == match(c1, "IDENTIFIER", AnyValue)
         named == add_child(add_child(Top.node, type_token_pt), m.node)
         lsquare_pt == advance_result(m.c)
         c3 == advance(m.c)
     IN  IF type_token_pt = None THEN Raise(c1)
         ELSE IF m.node = None
           THEN Return(warn(m.c, "Expected identifier after type keyword", Top.tok.line),
                       None)
         ELSE IF matches(m.c, "OPERATOR", LSQUARE)
           THEN IF lsquare_pt = None THEN Raise(c3)
                ELSE Goto(c3, [Top EXCEPT !.pc = "array_size",
                                          !.node = add_child(add_child(named, lsquare_pt),
                                                             ParseTreeNode("ArraySize"))])
         ELSE DeclarationEnd(m.c, named)

InArraySize(c) == c.cur # None /\ ~matches(c, "OPERATOR", RSQUARE)

\* One iteration of the array-size loop.
StmtArraySizeToken ==
  /\ At("parse_statement", "array_size")
  /\ InArraySize(Self)
  /\ LET size_token_pt == advance_result(Self)
     IN  Goto(advance(Self),
              [Top EXCEPT !.node = IF size_token_pt # None
                                     THEN add_to_last_child(@, size_token_pt) ELSE @])

\* After the array-size loop: expect ']', then the ';'
StmtArrayEnd ==
  /\ At("parse_statement", "array_size")
  /\ ~InArraySize(Self)
  /\ LET e == expect(Self, "OPERATOR", RSQUARE, "Syntax Error")
     IN  IF e.raised THEN Raise(e.c)
         ELSE DeclarationEnd(e.c, IF e.node # None THEN add_child(Top.node, e.node)
                                  ELSE Top.node)

\* 'return': parse_expression()
StmtReturn ==
  /\ At("parse_statement", "begin")
  /\ IsReturn(current_token)
  /\ LET return_token_pt == advance_result(Self)
         c1 == advance(Self)
     IN  IF return_token_pt = None THEN Raise(c1)
         ELSE Call(c1, [Top EXCEPT !.pc = "return_end",
                                   !.node = add_child(@, return_token_pt)],
                   NewFrame("parse_expression", "loop", ParseTreeNode("Expression"), c1))

\* ... then expect ';'
StmtReturnEnd ==
  /\ At("parse_statement", "return_end")
  /\ LET with_expr == IF ret # None THEN add_child(Top.node, ret) ELSE Top.node
         e == expect(Self, "SEPARATOR", SEMI, "Missing ';' after return statement")
     IN  IF e.raised THEN Raise(e.c)
         ELSE Return(e.c, IF e.node # None THEN add_child(with_expr, e.node) ELSE None)

\* if / while / for: the keyword, the warning, and '(' if it follows.
StmtControl ==
  /\ At("parse_statement", "begin")
  /\ IsControl(current_token)
  /\ LET keyword_pt == advance_result(Self)
         c1 == advance(Self)
         c2 == warn(c1, "Skipping control flow structure", Top.tok.line)
         m == match(c2, "SEPARATOR", LPAREN)
     IN  IF keyword_pt = None THEN Raise(c1)
         ELSE IF m.node # None
           THEN Goto(m.c, [Top EXCEPT !.pc = "condition",
                                      !.node = add_child(add_child(add_child(
                                                 @, keyword_pt), m.node),
                                                 ParseTreeNode("Condition"))])
           ELSE Goto(m.c, [Top EXCEPT !.pc = "control_body",
                                      !.node = add_child(@, keyword_pt)])

InCondition(c) == c.cur # None /\ ~matches(c, "SEPARATOR", RPAREN)

\* One iteration of the condition loop.
StmtConditionToken ==
  /\ At("parse_statement", "condition")
  /\ InCondition(Self)
  /\ LET cond_token_pt == advance_result(Self)
     IN  Goto(advance(Self),
              [Top EXCEPT !.node = IF cond_token_pt # None
                                     THEN add_to_last_child(@, cond_token_pt) ELSE @])

\* After the condition loop: expect ')'
StmtConditionEnd ==
  /\ At("parse_statement", "condition")
  /\ ~InCondition(Self)
  /\ LET e == expect(Self, "SEPARATOR", RPAREN, "Syntax Error")
     IN  IF e.raised THEN Raise(e.c)
         ELSE Goto(e.c, [Top EXCEPT !.pc = "control_body",
                                    !.node = IF e.node # None THEN add_child(@, e.node)
                                             ELSE @])

\* The body is a block: '{', then parse_function_body()
StmtControlBlock ==
  /\ At("parse_statement", "control_body")
  /\ matches(Self, "SEPARATOR", LBRACE)
  /\ LET lbrace_pt == advance_result(Self)
         c1 == advance(Self)
     IN  IF lbrace_pt = None THEN Raise(c1)
         ELSE Call(c1, [Top EXCEPT !.pc = "control_end", !.node = add_child(@, lbrace_pt)],
                   NewFrame("parse_function_body", "loop",
                            ParseTreeNode("FunctionBody"), c1))

\* The body is a single statement: parse_statement()
StmtControlSingle ==
  /\ At("parse_statement", "control_body")
  /\ ~matches(Self, "SEPARATOR", LBRACE)
  /\ Call(Self, [Top EXCEPT !.pc = "control_end"],
          NewFrame("parse_statement", "begin", ParseTreeNode("Statement"), Self))

\* The body's node is added if there is one; the statement is returned.
StmtControlEnd ==
  /\ At("parse_statement", "control_end")
  /\ Return(Self, IF ret # None THEN add_child(Top.node, ret) ELSE Top.node)

\* Expression statement: parse_expression_statement()
StmtExpression ==
  /\ At("parse_statement", "begin")
  /\ IsExpressionStart(current_token)
  /\ Call(Self, [Top EXCEPT !.pc = "expression_end"],
          NewFrame("parse_expression_statement", "begin",
                   ParseTreeNode("ExpressionStatement"), Self))

StmtExpressionEnd ==
  /\ At("parse_statement", "expression_end")
  /\ Return(Self, IF ret # None THEN add_child(Top.node, ret) ELSE None)

\* the token is reported but not skipped
skip_unknown_statement_no_advance(c) ==
  warn(c, "Skipping unknown/unhandled token as statement", c.cur.line)

\* Any other token: warn and advance().
skip_unknown_statement(c) ==
  advance(warn(c, "Skipping unknown/unhandled token as statement", c.cur.line))

\* No branch applies.  Without a current token, self.current_token[1] raises
\* TypeError; otherwise the token is skipped and None returned.
StmtUnknown ==
  /\ At("parse_statement", "begin")
  /\ ~IsDeclaration(current_token)
  /\ ~IsReturn(current_token)
  /\ ~IsControl(current_token)
  /\ ~IsExpressionStart(current_token)
  /\ IF current_token = None
       THEN Raise(Self)
       ELSE Return(skip_unknown_statement(Self), None)

\* ---- parse_expression() ----

ExpressionTerminators == {SEMI, LBRACE, RBRACE, RPAREN, RSQUARE, <<",">>}

InExpression(c) ==
  /\ c.cur # None
  /\ ~(c.cur.type = "SEPARATOR" /\ c.cur.value \in ExpressionTerminators)

\* '(': advance(), then parse_expression() for what is inside
ExprParen ==
  /\ At("parse_expression", "loop")
  /\ InExpression(Self)
  /\ matches(Self, "SEPARATOR", LPAREN)
  /\ LET lparen_pt == advance_result(Self)
         c1 == advance(Self)
     IN  IF lparen_pt = None THEN Raise(c1)
         ELSE Call(c1, [Top EXCEPT !.pc = "paren_end", !.node = add_child(@, lparen_pt)],
                   NewFrame("parse_expression", "loop", ParseTreeNode("Expression"), c1))

\* ... then expect ')'
ExprParenEnd ==
  /\ At("parse_expression", "paren_end")
  /\ LET with_sub == IF ret # None THEN add_child(Top.node, ret) ELSE Top.node
         e == expect(Self, "SEPARATOR", RPAREN, "Unclosed parenthesis in expression")
     IN  IF e.raised THEN Raise(e.c)
         ELSE Goto(e.c, [Top EXCEPT !.pc = "loop",
                                    !.node = IF e.node # None
                                               THEN add_child(with_sub, e.node)
                                             ELSE with_sub])

\* '[' as an OPERATOR token: advance(), then parse_expression() for the index
ExprBracket ==
  /\ At("parse_expression", "loop")
  /\ InExpression(Self)
  /\ matches(Self, "OPERATOR", LSQUARE)
  /\ LET lsquare_pt == advance_result(Self)
         c1 == advance(Self)
     IN  IF lsquare_pt = None THEN Raise(c1)
         ELSE Call(c1, [Top EXCEPT !.pc = "bracket_end", !.node = add_child(@, lsquare_pt)],
                   NewFrame("parse_expression", "loop", ParseTreeNode("Expression"), c1))

\* ... then expect ']' as an OPERATOR token
ExprBracketEnd ==
  /\ At("parse_expression", "bracket_end")
  /\ LET with_sub == IF ret # None THEN add_child(Top.node, ret) ELSE Top.node
         e == expect(Self, "OPERATOR", RSQUARE, "Unclosed bracket in array access")
     IN  IF e.raised THEN Raise(e.c)
         ELSE Goto(e.c, [Top EXCEPT !.pc = "loop",
                                    !.node = IF e.node # None
                                               THEN add_child(with_sub, e.node)
                                             ELSE with_sub])

\* Any other token: advance(); the node it returns is added (None: break).
ExprToken ==
  /\ At("parse_expression", "loop")
  /\ InExpression(Self)
  /\ ~matches(Self, "SEPARATOR", LPAREN)
  /\ ~matches(Self, "OPERATOR", LSQUARE)
  /\ LET current_token_pt == advance_result(Self)
     IN  Goto(advance(Self),
              [Top EXCEPT !.node = IF current_token_pt # None
                                     THEN add_child(@, current_token_pt) ELSE @])

\* The loop ends: the Expression node, or None when it has no children.
ExprReturn ==
  /\ At("parse_expression", "loop")
  /\ ~InExpression(Self)
  /\ Return(Self, IF Top.node.children = <<>> THEN None ELSE Top.node)

\* ---- parse_expression_statement() ----

\* The insecure-function check on the statement's first token, then
\* parse_expression()
ExprStmtBegin ==
  /\ At("parse_expression_statement", "begin")
  /\ Update(Self,
            << NewFrame("parse_expression", "loop", ParseTreeNode("Expression"), Self),
               [Top EXCEPT !.pc = "end"] >> \o Tail(stack),
            ret, status,
            IF /\ Top.tok # None
               /\ Top.tok.type = "IDENTIFIER"
               /\ Top.tok.value \in insecure_functions
              THEN check_insecure_function(insecure_function_issues,
                                           Top.tok.value, Top.tok.line)
              ELSE insecure_function_issues,
            parse_tree_root)

\* token_line of the statement's first token
token_line(tok) == IF tok # None THEN tok.line ELSE None

\* The expression is added and ';' matched; a warning and None otherwise.
ExprStmtEnd ==
  /\ At("parse_expression_statement", "end")
  /\ LET m == match(Self, "SEPARATOR", SEMI)
     IN  IF ret = None
           THEN Return(warn(Self, "Cannot parse beginning of expression statement",
                            token_line(Top.tok)), None)
         ELSE IF m.node # None
           THEN Return(m.c, add_child(add_child(Top.node, ret), m.node))
         ELSE Return(warn(m.c, "Missing ';' in statement", token_line(Top.tok)), None)


(***************************************************************************)
(*                 src/analyze.py : _deduplicate_findings                  *)
(***************************************************************************)

\* A finding is a dict: a record here, whose fields are the keys it has.

UpperLetters ==
  <<"A", "B", "C", "D", "E", "F", "G", "H", "I", "J", "K", "L", "M",
    "N", "O", "P", "Q", "R", "S", "T", "U", "V", "W", "X", "Y", "Z">>
LowerLetters ==
  <<"a", "b", "c", "d", "e", "f", "g", "h", "i", "j", "k", "l", "m",
    "n", "o", "p", "q", "r", "s", "t", "u", "v", "w", "x", "y", "z">>

\* str.lower(), for texts of ASCII characters
lower(s) ==
  [i \in 1..Len(s) |->
     IF \E k \in 1..26 : UpperLetters[k] = s[i]
       THEN LowerLetters[CHOOSE k \in 1..26 : UpperLetters[k] = s[i]]
       ELSE s[i]]

\* An int where the value may also be None.
PyInt(n) == [py |-> "int", v |-> n]

\* key = (finding.get('line_number'), finding.get('title', '').lower())
finding_key(finding) ==
  << IF "line_number" \in DOMAIN finding THEN PyInt(finding.line_number) ELSE None,
     lower(IF "title" \in DOMAIN finding THEN finding.title ELSE <<>>) >>

\* The dict unique_findings: its items in insertion order.
dict_index(d, key) ==
  IF \E i \in 1..Len(d) : d[i].key = key
    THEN CHOOSE i \in 1..Len(d) : d[i].key = key
    ELSE 0

\* every assignment adds an item
dict_append(d, key, value) == Append(d, [key |-> key, value |-> value])

\* a known key is deleted and the item added last
dict_set_last(d, key, value) ==
  Append(SelectSeq(d, LAMBDA item : item.key # key), [key |-> key, value |-> value])

\* d[key] = value: a new key is added last, a known key keeps its place.
dict_set(d, key, value) ==
  IF dict_index(d, key) = 0
    THEN Append(d, [key |-> key, value |-> value])
    ELSE [d EXCEPT ![dict_index(d, key)].value = value]

\* key not in unique_findings or ('suggestion' in finding and
\*                                'suggestion' not in unique_findings[key])
replaces(unique_findings, key, finding) ==
  \/ dict_index(unique_findings, key) = 0
  \/ /\ "suggestion" \in DOMAIN finding
     /\ "suggestion" \notin DOMAIN unique_findings[dict_index(unique_findings, key)].value

\* The for loop, from results[i] on.
RECURSIVE deduplicate_loop(_, _, _)
deduplicate_loop(results, i, unique_findings) ==
  IF i > Len(results) THEN unique_findings
  ELSE LET finding == results[i]
           key == finding_key(finding)
       IN  deduplicate_loop(results, i + 1,
             IF replaces(unique_findings, key, finding)
               THEN dict_set(unique_findings, key, finding)
               ELSE unique_findings)

\* _deduplicate_findings(results): list(unique_findings.values())
deduplicate_findings(results) ==
  LET unique_findings == deduplicate_loop(results, 1, <<>>)
  IN  [i \in 1..Len(unique_findings) |-> unique_findings[i].value]

\* final_findings = _deduplicate_findings(all_findings)
Deduplicate ==
  /\ analyze_pc = "deduplicate"
  /\ final_findings' = deduplicate_findings(all_findings)
  /\ analyze_pc' = "done"
  /\ UNCHANGED <<all_findings, other, solo, active>>
  /\ UNCHANGED <<lexvars, parservars, arithvars>>

(***************************************************************************)
(*            src/analyze.py : _analyze_arithmetic_operations              *)
(***************************************************************************)

\* One item of a regular expression over a class S of characters:
\*   "1" one character of S          "^1" one character not in S
\*   "?" at most one                 "*", "+" greedy repetitions
\*   "^*", "^+" greedy repetitions of characters not in S
\*   "(+)", "(^+)" a "+" or "^+" that is a capturing group
\*   "\\b" the empty word boundary
Atom(q, S) ==
  [set |-> S,
   neg |-> q \in {"^1", "^*", "^+", "(^+)"},
   min |-> IF q \in {"*", "^*", "?", "\\b"} THEN 0 ELSE 1,
   many |-> q \in {"*", "+", "^*", "^+", "(+)", "(^+)"},
   group |-> q \in {"(+)", "(^+)"},
   boundary |-> q = "\\b"]

\* The characters of w, one after the other.
Lit(w) == [i \in 1..Len(w) |-> Atom("1", {w[i]})]

\* The backtracking match of atoms[i..] at position p of s, atoms[i] taking k
\* characters at most: the end (exclusive) of each of atoms[i..] in the first
\* match in the order of re (longer repetitions first), or <<>> if none.
\* k > Len(s) asks for the longest run atoms[i] can take.
RECURSIVE re_match(_, _, _, _, _)
re_match(atoms, i, s, p, k) ==
  LET a == atoms[i]
      takes(c) == c # "" /\ ((c \in a.set) # a.neg)
      cap == IF a.boundary THEN 0
             ELSE IF a.many THEN Len(s) - p + 1
             ELSE IF 1 <= Len(s) - p + 1 THEN 1 ELSE 0
      run == Min({n \in 0..cap : n = cap \/ ~takes(CharAt(s, p + n))})
      rest == IF i = Len(atoms) THEN <<p + k>>
              ELSE LET r == re_match(atoms, i + 1, s, p + k, Len(s) + 1)
                   IN  IF r = <<>> THEN <<>> ELSE <<p + k>> \o r
  IN  IF k > Len(s) THEN re_match(atoms, i, s, p, run)
      ELSE IF k < a.min \/ (a.boundary /\ ~Boundary(s, p)) THEN <<>>
      ELSE IF rest # <<>> THEN rest
      ELSE re_match(atoms, i, s, p, k - 1)

\* re.findall(atoms, s) from position p on: for each match, left to right and
\* not overlapping, the texts of its groups.  No pattern of this module
\* matches the empty text.
RECURSIVE findall(_, _, _)
findall(atoms, s, p) ==
  IF p > Len(s) THEN <<>>
  ELSE LET ends == re_match(atoms, 1, s, p, Len(s) + 1)
           from(j) == IF j = 1 THEN p ELSE ends[j - 1]
           groups == {j \in 1..Len(atoms) : atoms[j].group}
           nth(g) == CHOOSE j \in groups : Cardinality({h \in groups : h <= j}) = g
       IN  IF ends = <<>> THEN findall(atoms, s, p + 1)
           ELSE << [g \in 1..Cardinality(groups) |->
                      SubSeq(s, from(nth(g)), ends[nth(g)] - 1)] >>
                \o findall(atoms, s, ends[Len(atoms)])

\* str.splitlines(): the breaks are \n, \r, \r\n and \f, and a break at the
\* end adds no line.
splitlines(s) ==
  LET breaks == {p \in 1..Len(s) :
                   \/ s[p] \in {"\r", "\f"}
                   \/ s[p] = NL /\ CharAt(s, p - 1) # "\r"}
      after(p) == IF s[p] = "\r" /\ CharAt(s, p + 1) = NL THEN p + 2 ELSE p + 1
      starts == {1} \cup {after(p) : p \in breaks}
      kept == {p \in starts : p <= Len(s)}
      nth(n) == CHOOSE p \in kept : Cardinality({q \in kept : q <= p}) = n
      end(p) == IF \E q \in breaks : q >= p
                  THEN Min({q \in breaks : q >= p}) - 1
                  ELSE Len(s)
  IN  [n \in 1..Cardinality(kept) |-> SubSeq(s, nth(n), end(nth(n)))]

\* The four patterns of input_patterns.
input_patterns ==
  << \* scanf\s*\([^,]*,\s*&(\w+)
     Lit(<<"s", "c", "a", "n", "f">>)
       \o << Atom("*", Whitespace), Atom("1", {"("}), Atom("^*", {","}), Atom("1", {","}),
             Atom("*", Whitespace), Atom("1", {"&"}), Atom("(+)", WordChars) >>,
     \* (\w+)\s*=\s*atoi\s*\(
     << Atom("(+)", WordChars), Atom("*", Whitespace), Atom("1", {"="}),
        Atom("*", Whitespace) >>
       \o Lit(<<"a", "t", "o", "i">>) \o << Atom("*", Whitespace), Atom("1", {"("}) >>,
     \* (\w+)\s*=\s*argv
     << Atom("(+)", WordChars), Atom("*", Whitespace), Atom("1", {"="}),
        Atom("*", Whitespace) >>
       \o Lit(<<"a", "r", "g", "v">>),
     \* fgets\s*\((\w+)
     Lit(<<"f", "g", "e", "t", "s">>)
       \o << Atom("*", Whitespace), Atom("1", {"("}), Atom("(+)", WordChars) >> >>

\* The four patterns of arithmetic_patterns, each with its op_type.
arithmetic_patterns ==
  << \* (\w+)\s*=\s*(\w+)\s*[\+\-\*\/]\s*(\w+)\s*;
     [pattern |-> << Atom("(+)", WordChars), Atom("*", Whitespace), Atom("1", {"="}),
                     Atom("*", Whitespace), Atom("(+)", WordChars), Atom("*", Whitespace),
                     Atom("1", {"+", "-", "*", "/"}), Atom("*", Whitespace),
                     Atom("(+)", WordChars), Atom("*", Whitespace), Atom("1", {";"}) >>,
      op_type |-> <<"a", "r", "i", "t", "h", "m", "e", "t", "i", "c">>],
     \* (\w+)\s*[\+\-\*\/]=\s*(\w+)\s*;
     [pattern |-> << Atom("(+)", WordChars), Atom("*", Whitespace),
                     Atom("1", {"+", "-", "*", "/"}), Atom("1", {"="}),
                     Atom("*", Whitespace), Atom("(+)", WordChars), Atom("*", Whitespace),
                     Atom("1", {";"}) >>,
      op_type |-> <<"c", "o", "m", "p", "o", "u", "n", "d", " ",
                    "a", "r", "i", "t", "h", "m", "e", "t", "i", "c">>],
     \* \w+\[\s*([^\]]+)\s*\]
     [pattern |-> << Atom("+", WordChars), Atom("1", {"["}), Atom("*", Whitespace),
                     Atom("(^+)", {"]"}), Atom("*", Whitespace), Atom("1", {"]"}) >>,
      op_type |-> <<"a", "r", "r", "a", "y", " ", "i", "n", "d", "e", "x", "i", "n", "g", " ",
                    "a", "r", "i", "t", "h", "m", "e", "t", "i", "c">>],
     \* malloc\s*\(\s*([^\)]+)\)
     [pattern |-> Lit(<<"m", "a", "l", "l", "o", "c">>)
                    \o << Atom("*", Whitespace), Atom("1", {"("}), Atom("*", Whitespace),
                          Atom("(^+)", {")"}), Atom("1", {")"}) >>,
      op_type |-> <<"m", "a", "l", "l", "o", "c", " ", "w", "i", "t", "h", " ",
                    "a", "r", "i", "t", "h", "m", "e", "t", "i", "c">>] >>

\* str(match): a match of a pattern with one group is the text of the group,
\* a match of a pattern with several is the tuple of their texts.
str(m) ==
  IF Len(m) = 1 THEN m[1]
  ELSE LET RECURSIVE items(_)
           items(g) == IF g > Len(m) THEN <<>>
                       ELSE (IF g = 1 THEN <<>> ELSE <<",", " ">>)
                            \o <<SQ>> \o m[g] \o <<SQ>> \o items(g + 1)
       IN  <<"(">> \o items(1) \o <<")">>

\* op_vars = re.findall(r'\b\w+\b', str(match)), as a set.
op_vars(m) ==
  LET found == findall(<<Atom("\\b", {}), Atom("(+)", WordChars), Atom("\\b", {})>>,
                       str(m), 1)
  IN  {found[n][1] : n \in 1..Len(found)}

\* the window starts one line earlier
context_from_line_before(ls, num) ==
  LET context_start == IF num - 4 > 0 THEN num - 4 ELSE 0
      context_end == IF Len(ls) < num + 2 THEN Len(ls) ELSE num + 2
      RECURSIVE join(_)
      join(n) == IF n > context_end THEN <<>>
                 ELSE (IF n = context_start + 1 THEN <<>> ELSE <<NL>>) \o ls[n] \o join(n + 1)
  IN  join(context_start + 1)

\* context_start = max(0, line_num - 3)
\* context_end = min(len(lines), line_num + 2)
\* context = '\n'.join(lines[context_start:context_end])
\* (a slice lines[a:b] holds the lines a+1 .. b, counted from 1)
context(ls, num) ==
  LET context_start == IF num - 3 > 0 THEN num - 3 ELSE 0
      context_end == IF Len(ls) < num + 2 THEN Len(ls) ELSE num + 2
      RECURSIVE join(_)
      join(n) == IF n > context_end THEN <<>>
                 ELSE (IF n = context_start + 1 THEN <<>> ELSE <<NL>>) \o ls[n] \o join(n + 1)
  IN  join(context_start + 1)

\* bool(re.search(r'(if\s*\(.*[<>]=?)|(INT_MAX)|(INT_MIN)', context, re.IGNORECASE))
has_bounds_check(text) ==
  LET ci(w) == [i \in 1..Len(w) |->
                  Atom("1", {c \in Letters \cup {"_"} : lower(<<c>>) = lower(<<w[i]>>)})]
      alternatives ==
        { ci(<<"i", "f">>) \o << Atom("*", Whitespace), Atom("1", {"("}), Atom("^*", {NL}),
                                 Atom("1", {"<", ">"}), Atom("?", {"="}) >>,
          ci(<<"I", "N", "T", "_", "M", "A", "X">>),
          ci(<<"I", "N", "T", "_", "M", "I", "N">>) }
  IN  \E p \in 1..Len(text) : \E r \in alternatives : re_match(r, 1, text, p, Len(text) + 1) # <<>>

\* every operation without a bounds check is reported as "Medium"
severity_medium(uses_input, bounds_check) == IF ~bounds_check THEN "Medium" ELSE "continue"

\* The decision of lines 168-173: the severity, or "continue".
severity(uses_input, bounds_check) ==
  IF uses_input /\ ~bounds_check THEN "High"
  ELSE IF ~bounds_check THEN "Medium"
  ELSE "continue"

\* str.title(): a letter after a character that is no letter is made upper
\* case, every other letter lower case.
title(s) ==
  [i \in 1..Len(s) |->
     IF i > 1 /\ s[i - 1] \in Letters
       THEN lower(<<s[i]>>)[1]
       ELSE IF \E k \in 1..26 : LowerLetters[k] = s[i]
              THEN UpperLetters[CHOOSE k \in 1..26 : LowerLetters[k] = s[i]]
              ELSE s[i]]

\* The findings that the body of the second loop appends for one line:
\* patterns in their order, the matches of each left to right.
line_vulnerabilities(ls, num, inputs) ==
  LET RECURSIVE of_matches(_, _, _)
      of_matches(k, matches_, n) ==
        IF n > Len(matches_) THEN <<>>
        ELSE LET uses_input == op_vars(matches_[n]) \cap inputs # {}
                 sev == severity(uses_input, has_bounds_check(context(ls, num)))
             IN  (IF sev = "continue" THEN <<>>
                  ELSE << [title |-> <<"I", "n", "t", "e", "g", "e", "r", " ",
                                       "O", "v", "e", "r", "f", "l", "o", "w", " ",
                                       "R", "i", "s", "k", " ", "i", "n", " ">>
                                     \o title(arithmetic_patterns[k].op_type),
                           line_number |-> num,
                           severity |-> sev,
                           explanation |->
                             IF uses_input
                               THEN "Arithmetic operation without explicit bounds checking detected. It involves user-controlled data, increasing risk."
                               ELSE "Arithmetic operation without explicit bounds checking detected. ",
                           suggestion |-> "Validate inputs and add bounds checking before the operation. Example: if (a > INT_MAX - b) { /* handle overflow */ }.",
                           type |-> "arithmetic_vulnerability"] >>)
                 \o of_matches(k, matches_, n + 1)
      RECURSIVE of_patterns(_)
      of_patterns(k) ==
        IF k > Len(arithmetic_patterns) THEN <<>>
        ELSE of_matches(k, findall(arithmetic_patterns[k].pattern, ls[num], 1), 1)
             \o of_patterns(k + 1)
  IN  of_patterns(1)

\* the taint set is not made anew
ArithBeginKeepsTaint ==
  /\ arith_pc = "begin"
  /\ lines' = splitlines(code)
  /\ vulnerabilities' = <<>>
  /\ arith_line' = 1
  /\ arith_pc' = "seed"
  /\ UNCHANGED input_variables
  /\ UNCHANGED <<lexvars, parservars, analyzevars>>

\* lines 132-134: the locals of a call on `code`
ArithBegin ==
  /\ arith_pc = "begin"
  /\ lines' = splitlines(code)
  /\ input_variables' = {}
  /\ vulnerabilities' = <<>>
  /\ arith_line' = 1
  /\ arith_pc' = "seed"
  /\ UNCHANGED <<lexvars, parservars, analyzevars>>

\* lines 143-147: one turn of the first loop
SeedLine ==
  /\ arith_pc = "seed"
  /\ arith_line <= Len(lines)
  /\ input_variables' = input_variables \cup
       UNION { LET found == findall(input_patterns[k], lines[arith_line], 1)
               IN  {found[n][1] : n \in 1..Len(found)} : k \in 1..Len(input_patterns) }
  /\ arith_line' = arith_line + 1
  /\ UNCHANGED <<lines, vulnerabilities, arith_pc>>
  /\ UNCHANGED <<lexvars, parservars, analyzevars>>

\* the first loop is over: the second starts at line 1
SeedEnd ==
  /\ arith_pc = "seed"
  /\ arith_line > Len(lines)
  /\ arith_line' = 1
  /\ arith_pc' = "scan"
  /\ UNCHANGED <<lines, input_variables, vulnerabilities>>
  /\ UNCHANGED <<lexvars, parservars, analyzevars>>

\* lines 156-181: one turn of the second loop
ScanLine ==
  /\ arith_pc = "scan"
  /\ arith_line <= Len(lines)
  /\ vulnerabilities' =
       vulnerabilities \o line_vulnerabilities(lines, arith_line, input_variables)
  /\ arith_line' = arith_line + 1
  /\ UNCHANGED <<lines, input_variables, arith_pc>>
  /\ UNCHANGED <<lexvars, parservars, analyzevars>>

\* line 182: return vulnerabilities
ArithReturn ==
  /\ arith_pc = "scan"
  /\ arith_line > Len(lines)
  /\ arith_pc' = "done"
  /\ UNCHANGED <<lines, input_variables, vulnerabilities, arith_line>>
  /\ UNCHANGED <<lexvars, parservars, analyzevars>>
\* Source texts: concatenations of at most MaxPieces pieces.  The pieces are
\* single characters of every class the patterns tell apart, one word that is
\* both a keyword and a preprocessor directive, and openers that end a line.
MaxPieces == 3

SourcePieces ==
  { <<"#">>, <<"e", "l", "s", "e">>, <<NL>>, <<"x">>, <<"1">>,
    <<DQ>>, <<SQ>>, <<BS>>, <<"/">>, <<"*">>,
    <<"/", "*", NL>>, <<"*", "/">>, <<DQ, NL>>, <<"#", NL>> }

RECURSIVE PieceTexts(_)
PieceTexts(n) ==
  IF n = 0 THEN {<<>>}
  ELSE LET S == PieceTexts(n - 1) IN S \cup {t \o q : t \in S, q \in SourcePieces}

\* No Parser has been constructed.
ParserIdle ==
  /\ tokens = <<>>
  /\ current_token_index = 0
  /\ current_token = None
  /\ warnings = <<>>
  /\ insecure_function_issues = <<>>
  /\ parse_tree_root = None
  /\ stack = <<>>
  /\ ret = None
  /\ status = "idle"

\* _analyze_arithmetic_operations has not been called.
ArithIdle ==
  /\ lines = <<>>
  /\ input_variables = {}
  /\ vulnerabilities = <<>>
  /\ arith_line = 0
  /\ arith_pc = "idle"

\* analyze_code has not been called.
AnalyzeIdle ==
  /\ all_findings = <<>>
  /\ final_findings = None
  /\ analyze_pc = "idle"
  /\ other = None
  /\ solo = None
  /\ active = 0

LexInit ==
  /\ code \in PieceTexts(MaxPieces)
  /\ pos = 1
  /\ after_empty = FALSE
  /\ lex_tokens = <<>>
  /\ lex_starts = <<>>
  /\ line_num = 1
  /\ consumed = <<>>
  /\ lex_pc = "scan"
  /\ ParserIdle
  /\ ArithIdle
  /\ AnalyzeIdle

LexNext == Scan \/ LexReturn

LexSpec == LexInit /\ [][LexNext]_vars

\* tokenize_code runs to its end without being suspended.
LexFairSpec == LexSpec /\ WF_vars(LexNext)

(***************************************************************************)
(*                          Inputs of the parser                           *)
(***************************************************************************)

\* Token sequences: an optional function header on line 1, then at most
\* MaxFragments fragments, fragment k on line k + 1, then an optional closing
\* brace.  A fragment is a single token of each kind the parser tells apart,
\* or a short statement.
MaxFragments == 2

Kw(v) == [type |-> "KEYWORD", value |-> v]
Id(v) == [type |-> "IDENTIFIER", value |-> v]
Sep(v) == [type |-> "SEPARATOR", value |-> v]
Op(v) == [type |-> "OPERATOR", value |-> v]

INT == <<"i","n","t">>
GETS == <<"g","e","t","s">>

\* int f ( x ) {
Headers ==
  { << Kw(INT), Id(<<"f">>), Sep(LPAREN), Id(<<"x">>), Sep(RPAREN), Sep(LBRACE) >> }

Fragments ==
  { << Kw(INT) >>, << Kw(<<"r","e","t","u","r","n">>) >>, << Kw(<<"i","f">>) >>,
    << Id(GETS) >>, << Id(<<"x">>) >>,
    << Sep(LPAREN) >>, << Sep(RPAREN) >>, << Sep(LBRACE) >>, << Sep(RBRACE) >>,
    << Sep(SEMI) >>, << Op(LSQUARE) >>, << Op(RSQUARE) >>,
    \* int x [      with the bracket as an OPERATOR token
    << Kw(INT), Id(<<"x">>), Op(LSQUARE) >>,
    << [type |-> "PREPROCESSOR", value |-> <<"#","e","l","s","e">>] >>,
    \* gets ( x ) ;
    << Id(GETS), Sep(LPAREN), Id(<<"x">>), Sep(RPAREN), Sep(SEMI) >>,
    \* int x [ x ] ;   with the brackets as the tokenizer classifies them
    << Kw(INT), Id(<<"x">>), Sep(LSQUARE), Id(<<"x">>), Sep(RSQUARE), Sep(SEMI) >>,
    \* if ( gets ( x ) )
    << Kw(<<"i","f">>), Sep(LPAREN), Id(GETS), Sep(LPAREN), Id(<<"x">>), Sep(RPAREN),
       Sep(RPAREN) >> }

AtLine(fragment, l) ==
  [i \in 1..Len(fragment) |->
     [type |-> fragment[i].type, value |-> fragment[i].value, line |-> l]]

\* The token sequences of exactly n fragments after the prefix.
RECURSIVE WithFragments(_, _)
WithFragments(prefix, n) ==
  IF n = 0 THEN {prefix}
  ELSE {t \o AtLine(f, n + 1) : t \in WithFragments(prefix, n - 1), f \in Fragments}

\* Nothing, or a closing brace on the line after the n-th fragment.
Closers(n) == {<<>>, AtLine(<< Sep(RBRACE) >>, n + 2)}

\* Two whole programs, as tokenize_code gives them:
\*   int main() { return 0; }
\*   x int f() { }
Examples ==
  << AtLine(<< Kw(INT), Id(<<"m","a","i","n">>), Sep(LPAREN), Sep(RPAREN), Sep(LBRACE),
               Kw(<<"r","e","t","u","r","n">>), [type |-> "NUMBER", value |-> <<"0">>],
               Sep(SEMI), Sep(RBRACE) >>, 1),
     AtLine(<< Id(<<"x">>), Kw(INT), Id(<<"f">>), Sep(LPAREN), Sep(RPAREN), Sep(LBRACE),
               Sep(RBRACE) >>, 1) >>

Inputs ==
  UNION {{t \o z : t \in WithFragments(prefix, n), z \in Closers(n)} :
           prefix \in {<<>>} \cup {AtLine(h, 1) : h \in Headers}, n \in 0..MaxFragments}
  \cup {Examples[i] : i \in 1..Len(Examples)}

\* tokenize_code has not been called.
LexerIdle ==
  /\ code = <<>>
  /\ pos = 1
  /\ after_empty = FALSE
  /\ lex_tokens = <<>>
  /\ lex_starts = <<>>
  /\ line_num = 1
  /\ consumed = <<>>
  /\ lex_pc = "idle"

\* Parser(tokens), then parse() is about to run.
Init ==
  /\ tokens \in Inputs
  /\ current_token_index = IF tokens # <<>> THEN 1 ELSE 0
  /\ current_token = IF tokens # <<>> THEN tokens[1] ELSE None
  /\ warnings = <<>>
  /\ insecure_function_issues = <<>>
  /\ parse_tree_root = None
  /\ stack = << [fn |-> "parse", pc |-> "begin", node |-> None,
                 tok |-> IF tokens # <<>> THEN tokens[1] ELSE None,
                 mark |-> 0, iter |-> -1] >>
  /\ ret = None
  /\ status = "running"
  /\ LexerIdle
  /\ ArithIdle
  /\ AnalyzeIdle

\* The steps parse() can take on tokens that tokenize_code has produced.
TokenizedNext ==
  \/ SkipStep \/ SkipReturn
  \/ ParseBegin \/ ParseLoopFunction \/ ParseAfterFunction \/ ParseLoopSkip \/ ParseReturn
  \/ FuncDefHeader \/ FuncDefParameter \/ FuncDefAfterParams \/ FuncDefAfterBody
  \/ BodyLoopEnter \/ BodyCallStatement \/ BodyAfterStatement \/ BodyClose
  \/ StmtDeclaration
  \/ StmtReturn \/ StmtReturnEnd
  \/ StmtControl \/ StmtConditionToken \/ StmtConditionEnd
  \/ StmtControlBlock \/ StmtControlSingle \/ StmtControlEnd
  \/ StmtExpression \/ StmtExpressionEnd \/ StmtUnknown
  \/ ExprParen \/ ExprParenEnd \/ ExprToken \/ ExprReturn
  \/ ExprStmtBegin \/ ExprStmtEnd

\* Every step of parse(): the others need a '[' or ']' token of type OPERATOR.
Next ==
  \/ TokenizedNext
  \/ StmtArraySizeToken \/ StmtArrayEnd
  \/ ExprBracket \/ ExprBracketEnd

Spec == Init /\ [][Next]_vars

\* parse() runs to its end without being suspended: it has no I/O and no
\* suspension point, so a step that can be taken is taken.
FairSpec == Spec /\ WF_vars(Next)


(***************************************************************************)
(*               Inputs of _analyze_arithmetic_operations                  *)
(***************************************************************************)

\* Sources of at most MaxLines lines, each one of SourceLines and ended by
\* a line feed but for the last.
MaxLines == 4

SourceLines ==
  << <<"i", "n", "t", " ", "x", " ", "=", " ", "a", "t", "o", "i", "(", "a", "r", "g", "v", "[", "1", "]", ")", ";">>,
    <<"i", "n", "t", " ", "y", " ", "=", " ", "x", " ", "+", " ", "1", "0", ";">>,
    <<"i", "f", " ", "(", "x", " ", "<", " ", "1", "0", "0", ")", " ", "{">>,
    <<"}">> >>

RECURSIVE Sources(_)
Sources(n) ==
  IF n = 0 THEN {<<>>}
  ELSE LET S == Sources(n - 1)
           L == {SourceLines[i] : i \in 1..Len(SourceLines)}
       IN  S \cup L \cup {t \o <<NL>> \o l : t \in S \ {<<>>}, l \in L}

HeuristicInit ==
  /\ code \in Sources(MaxLines)
  /\ pos = 1
  /\ after_empty = FALSE
  /\ lex_tokens = <<>>
  /\ lex_starts = <<>>
  /\ line_num = 1
  /\ consumed = <<>>
  /\ lex_pc = "idle"
  /\ lines = <<>>
  /\ input_variables = {}
  /\ vulnerabilities = <<>>
  /\ arith_line = 0
  /\ arith_pc = "begin"
  /\ ParserIdle
  /\ AnalyzeIdle

HeuristicNext ==
  \/ ArithBegin
  \/ SeedLine
  \/ SeedEnd
  \/ ScanLine
  \/ ArithReturn

HeuristicSpec == HeuristicInit /\ [][HeuristicNext]_vars

\* _analyze_arithmetic_operations is called again, on another source.  The
\* locals of the call that has returned belong to no one; what the taint set
\* was is kept in solo.
ArithCallAgain ==
  /\ arith_pc = "done"
  /\ code' \in Sources(1)
  /\ arith_pc' = "begin"
  /\ solo' = [taint |-> input_variables]
  /\ UNCHANGED <<lines, input_variables, vulnerabilities, arith_line>>
  /\ UNCHANGED <<pos, after_empty, lex_tokens, lex_starts, line_num, consumed, lex_pc>>
  /\ UNCHANGED <<all_findings, final_findings, analyze_pc, other, active>>
  /\ UNCHANGED parservars

\* Calls of _analyze_arithmetic_operations one after the other.
RepeatNext == HeuristicNext \/ ArithCallAgain

RepeatSpec == HeuristicInit /\ [][RepeatNext]_vars

(***************************************************************************)
(*                   Inputs of _deduplicate_findings                       *)
(***************************************************************************)

\* Lists of at most MaxFindings findings.  The findings are on two lines, with
\* two titles that differ in letter case only, and have no suggestion, an
\* empty one or a non-empty one; one finding has another title and a type,
\* and two have the keys of the parser's findings.
MaxFindings == 3

FOO == <<"F", "o", "o">>

FindingPool ==
  UNION { { [line_number |-> l, title |-> t],
            [line_number |-> l, title |-> t, suggestion |-> ""],
            [line_number |-> l, title |-> t, suggestion |-> "fix it"] } :
          l \in {3, 4}, t \in {FOO, lower(FOO)} }
  \cup { [line_number |-> 3, title |-> <<"F", "O", "O">>, suggestion |-> "other",
          type |-> "function_vulnerability"] }
  \cup { [function |-> GETS, line |-> l, fix |-> "use fgets()", cwe |-> "CWE-120",
          source |-> "Custom Parser"] : l \in {2, 5} }

RECURSIVE FindingLists(_)
FindingLists(n) ==
  IF n = 0 THEN {<<>>}
  ELSE LET S == FindingLists(n - 1) IN S \cup {Append(r, f) : r \in S, f \in FindingPool}

DedupInit ==
  /\ all_findings \in FindingLists(MaxFindings)
  /\ final_findings = None
  /\ analyze_pc = "deduplicate"
  /\ other = None
  /\ solo = None
  /\ active = 0
  /\ LexerIdle
  /\ ParserIdle
  /\ ArithIdle

DedupNext == Deduplicate

DedupSpec == DedupInit /\ [][DedupNext]_vars

(***************************************************************************)
(*        Two invocations side by side: Parser instances (their            *)
(*        attributes, src/parser_custom.py __init__) and calls of          *)
(*        _analyze_arithmetic_operations (their locals, src/analyze.py)    *)
(***************************************************************************)

\* What belongs to the invocation that is running: the attributes of its
\* Parser and the position in parse(), or the argument and the locals of its
\* call of _analyze_arithmetic_operations.
Invocation ==
  [tokens |-> tokens, current_token_index |-> current_token_index,
   current_token |-> current_token, warnings |-> warnings,
   insecure_function_issues |-> insecure_function_issues,
   parse_tree_root |-> parse_tree_root, stack |-> stack, ret |-> ret, status |-> status,
   code |-> code, lines |-> lines, input_variables |-> input_variables,
   vulnerabilities |-> vulnerabilities, arith_line |-> arith_line, arith_pc |-> arith_pc]

\* The same work about to start: Parser(tokens) built and parse() called, or
\* _analyze_arithmetic_operations(code) called.
Fresh(r) ==
  [r EXCEPT
     !.current_token_index = IF r.status = "idle" \/ r.tokens = <<>> THEN 0 ELSE 1,
     !.current_token = IF r.status = "idle" \/ r.tokens = <<>> THEN None ELSE r.tokens[1],
     !.warnings = <<>>,
     !.insecure_function_issues = <<>>,
     !.parse_tree_root = None,
     !.stack = IF r.status = "idle" THEN <<>>
               ELSE << [fn |-> "parse", pc |-> "begin", node |-> None,
                        tok |-> IF r.tokens # <<>> THEN r.tokens[1] ELSE None,
                        mark |-> 0, iter |-> -1] >>,
     !.ret = None,
     !.status = IF r.status = "idle" THEN "idle" ELSE "running",
     !.lines = <<>>,
     !.input_variables = {},
     !.vulnerabilities = <<>>,
     !.arith_line = 0,
     !.arith_pc = IF r.arith_pc = "idle" THEN "idle" ELSE "begin"]

\* The invocation r is the one that runs from now on.
Load(r) ==
  /\ tokens' = r.tokens
  /\ current_token_index' = r.current_token_index
  /\ current_token' = r.current_token
  /\ warnings' = r.warnings
  /\ insecure_function_issues' = r.insecure_function_issues
  /\ parse_tree_root' = r.parse_tree_root
  /\ stack' = r.stack
  /\ ret' = r.ret
  /\ status' = r.status
  /\ code' = r.code
  /\ lines' = r.lines
  /\ input_variables' = r.input_variables
  /\ vulnerabilities' = r.vulnerabilities
  /\ arith_line' = r.arith_line
  /\ arith_pc' = r.arith_pc
  /\ UNCHANGED <<pos, after_empty, lex_tokens, lex_starts, line_num, consumed, lex_pc>>
  /\ UNCHANGED <<all_findings, final_findings, analyze_pc>>

\* What the invocation r has produced once it is over (parse() returned or
\* raised, _analyze_arithmetic_operations returned), None before.
Result(r) ==
  IF r.status \in {"returned", "raised"} \/ r.arith_pc = "done"
    THEN [status |-> r.status, warnings |-> r.warnings,
          insecure_function_issues |-> r.insecure_function_issues,
          parse_tree_root |-> r.parse_tree_root,
          input_variables |-> r.input_variables, vulnerabilities |-> r.vulnerabilities]
    ELSE None

\* the warnings are one list for the two invocations
SwitchSharedWarnings ==
  /\ active \in {1, 2}
  /\ Load([other EXCEPT !.warnings = warnings])
  /\ other' = Invocation
  /\ active' = 3 - active
  /\ UNCHANGED solo

\* The scheduler stops the running invocation and lets the other one run.
Switch ==
  /\ active \in {1, 2}
  /\ Load(other)
  /\ other' = Invocation
  /\ active' = 3 - active
  /\ UNCHANGED solo

\* The work that ran alone is over: what it gave is kept, and the same work
\* is started again as invocation 1, next to invocation 2.
SoloEnd ==
  /\ active = 0
  /\ other # None
  /\ Result(Invocation) # None
  /\ solo' = Result(Invocation)
  /\ Load(Fresh(Invocation))
  /\ active' = 1
  /\ UNCHANGED other

\* The work of an invocation: parse() on one of three token sequences,
\*   int main() { return 0; }
\*   #else x int f(x) { if (x) { gets(x); } int x[x]; x[x]; ; }
\*       (the brackets of the last two statements as OPERATOR tokens)
\*   int f(x) { if (x) x; }
\* or _analyze_arithmetic_operations on one of two sources.
Jobs ==
  LET idle == [tokens |-> <<>>, current_token_index |-> 0, current_token |-> None,
               warnings |-> <<>>, insecure_function_issues |-> <<>>,
               parse_tree_root |-> None, stack |-> <<>>, ret |-> None, status |-> "idle",
               code |-> <<>>, lines |-> <<>>, input_variables |-> {},
               vulnerabilities |-> <<>>, arith_line |-> 0, arith_pc |-> "idle"]
      x == Id(<<"x">>)
      call == << Id(GETS), Sep(LPAREN), x, Sep(RPAREN) >>
      head == << Kw(INT), Id(<<"f">>), Sep(LPAREN), x, Sep(RPAREN), Sep(LBRACE) >>
      index == << x, Op(LSQUARE), x, Op(RSQUARE) >>
  IN  { Fresh([idle EXCEPT !.tokens = t, !.status = "running"]) :
          t \in { Examples[1],
                  AtLine(<< [type |-> "PREPROCESSOR", value |-> <<"#","e","l","s","e">>], x >>
                         \o head, 1)
                    \o AtLine(<< Kw(<<"i","f">>), Sep(LPAREN), x, Sep(RPAREN), Sep(LBRACE) >>
                              \o call
                              \o << Sep(SEMI), Sep(RBRACE) >>, 2)
                    \o AtLine(<< Kw(INT) >> \o index \o << Sep(SEMI) >> \o index
                              \o << Sep(SEMI), Sep(SEMI), Sep(RBRACE) >>, 3),
                  AtLine(head \o << Kw(<<"i","f">>), Sep(LPAREN), x, Sep(RPAREN), x,
                                    Sep(SEMI), Sep(RBRACE) >>, 1) } }
      \cup
      { Fresh([idle EXCEPT !.code = c, !.arith_pc = "begin"]) :
          c \in { SourceLines[1] \o <<NL>> \o SourceLines[2],
                  SourceLines[3] \o <<NL>> \o SourceLines[2] } }

\* One piece of work runs alone first; then the same work runs again as
\* invocation 1 while invocation 2 does its own.
ConcurrentInit ==
  /\ \E j1 \in Jobs, j2 \in Jobs :
       /\ tokens = j1.tokens
       /\ current_token_index = j1.current_token_index
       /\ current_token = j1.current_token
       /\ warnings = j1.warnings
       /\ insecure_function_issues = j1.insecure_function_issues
       /\ parse_tree_root = j1.parse_tree_root
       /\ stack = j1.stack
       /\ ret = j1.ret
       /\ status = j1.status
       /\ code = j1.code
       /\ lines = j1.lines
       /\ input_variables = j1.input_variables
       /\ vulnerabilities = j1.vulnerabilities
       /\ arith_line = j1.arith_line
       /\ arith_pc = j1.arith_pc
       /\ other = j2
  /\ solo = None
  /\ active = 0
  /\ pos = 1
  /\ after_empty = FALSE
  /\ lex_tokens = <<>>
  /\ lex_starts = <<>>
  /\ line_num = 1
  /\ consumed = <<>>
  /\ lex_pc = "idle"
  /\ all_findings = <<>>
  /\ final_findings = None
  /\ analyze_pc = "idle"

ConcurrentNext ==
  \/ Next
  \/ HeuristicNext
  \/ SoloEnd
  \/ Switch

ConcurrentSpec == ConcurrentInit /\ [][ConcurrentNext]_vars

(***************************************************************************)
(*                     src/analyze.py : analyze_code                       *)
(***************************************************************************)

\* _analyze_with_pattern_matching(code): the patterns in the order of the
\* dict, and for each the lines that re.search finds it in.
analyze_with_pattern_matching(source) ==
  LET call(name) == Lit(name) \o << Atom("*", Whitespace), Atom("1", {"("}) >>
      patterns ==
        << \* gets\s*\(
           [pattern |-> call(<<"g", "e", "t", "s">>),
            title |-> <<"U", "n", "s", "a", "f", "e", " ", "g", "e", "t", "s", "(", ")", " ", "U", "s", "a", "g", "e">>,
            severity |-> "Critical"],
           \* strcpy\s*\(
           [pattern |-> call(<<"s", "t", "r", "c", "p", "y">>),
            title |-> <<"U", "n", "s", "a", "f", "e", " ", "s", "t", "r", "c", "p", "y", "(", ")", " ", "U", "s", "a", "g", "e">>,
            severity |-> "High"],
           \* sprintf\s*\(
           [pattern |-> call(<<"s", "p", "r", "i", "n", "t", "f">>),
            title |-> <<"U", "n", "s", "a", "f", "e", " ", "s", "p", "r", "i", "n", "t", "f", "(", ")", " ", "U", "s", "a", "g", "e">>,
            severity |-> "High"],
           \* printf\s*\(\s*[a-zA-Z_][a-zA-Z0-9_]*\s*\)
           [pattern |-> call(<<"p", "r", "i", "n", "t", "f">>)
                          \o << Atom("*", Whitespace), Atom("1", Letters \cup {"_"}),
                                Atom("*", WordChars), Atom("*", Whitespace),
                                Atom("1", {")"}) >>,
            title |-> <<"F", "o", "r", "m", "a", "t", " ", "S", "t", "r", "i", "n", "g", " ", "V", "u", "l", "n", "e", "r", "a", "b", "i", "l", "i", "t", "y">>,
            severity |-> "Medium"] >>
      ls == splitlines(source)
      search(r, s) == \E p \in 1..Len(s) : re_match(r, 1, s, p, Len(s) + 1) # <<>>
      RECURSIVE results(_, _)
      results(k, n) ==
        IF k > Len(patterns) THEN <<>>
        ELSE IF n > Len(ls) THEN results(k + 1, 1)
        ELSE (IF search(patterns[k].pattern, ls[n])
                THEN << [title |-> patterns[k].title, line_number |-> n,
                         severity |-> patterns[k].severity,
                         explanation |-> "This function is known to be insecure and can lead to vulnerabilities.",
                         suggestion |-> "Consult documentation for safer alternatives like fgets, strncpy, or snprintf.",
                         type |-> "function_vulnerability"] >>
                ELSE <<>>)
             \o results(k, n + 1)
  IN  results(1, 1)

\* get_ai_analysis_improved(code): what it can return.  Without an API key, on
\* an error or for an answer that is no list it returns []; otherwise the
\* dicts of the model's answer that have a 'line_number'.  One such answer is
\* taken here, a finding on line 2, with and without
\* the key 'suggestion'.
AIFindings ==
  { <<>>,
    << [title |-> <<"U", "n", "s", "a", "f", "e", " ", "g", "e", "t", "s", "(", ")", " ", "u", "s", "a", "g", "e">>, line_number |-> 2,
        severity |-> "Critical", explanation |-> "gets() does not check the size of its buffer.",
        suggestion |-> ""] >>,
    << [title |-> <<"U", "n", "s", "a", "f", "e", " ", "g", "e", "t", "s", "(", ")", " ", "u", "s", "a", "g", "e">>, line_number |-> 2,
        severity |-> "Critical"] >> }

\* lines 244-251: all_findings = []; the AI layer; _analyze_arithmetic_operations
\* is called
AnalyzeBegin ==
  /\ analyze_pc = "ai"
  /\ \E ai_findings \in AIFindings : all_findings' = ai_findings
  /\ analyze_pc' = "arithmetic"
  /\ arith_pc' = "begin"
  /\ UNCHANGED <<lines, input_variables, vulnerabilities, arith_line>>
  /\ UNCHANGED <<final_findings, other, solo, active>>
  /\ UNCHANGED <<lexvars, parservars>>

\* lines 251-260: the heuristic's findings and those of the pattern matching
\* are added; tokenize_code is called
AfterArithmetic ==
  /\ analyze_pc = "arithmetic"
  /\ arith_pc = "done"
  /\ all_findings' = all_findings \o vulnerabilities \o analyze_with_pattern_matching(code)
  /\ analyze_pc' = "tokenize"
  /\ lex_pc' = "scan"
  /\ UNCHANGED <<code, pos, after_empty, lex_tokens, lex_starts, line_num, consumed>>
  /\ UNCHANGED <<final_findings, other, solo, active>>
  /\ UNCHANGED <<parservars, arithvars>>

\* lines 260-262: parser = Parser(tokens); parser.parse() is called
AfterTokenize ==
  /\ analyze_pc = "tokenize"
  /\ lex_pc = "done"
  /\ tokens' = lex_tokens
  /\ current_token_index' = IF lex_tokens # <<>> THEN 1 ELSE 0
  /\ current_token' = IF lex_tokens # <<>> THEN lex_tokens[1] ELSE None
  /\ warnings' = <<>>
  /\ insecure_function_issues' = <<>>
  /\ parse_tree_root' = None
  /\ stack' = << [fn |-> "parse", pc |-> "begin", node |-> None,
                  tok |-> IF lex_tokens # <<>> THEN lex_tokens[1] ELSE None,
                  mark |-> 0, iter |-> -1] >>
  /\ ret' = None
  /\ status' = "running"
  /\ analyze_pc' = "parse"
  /\ UNCHANGED <<all_findings, final_findings, other, solo, active>>
  /\ UNCHANGED <<lexvars, arithvars>>

\* lines 262-263: parse() has returned and the parser's findings are added;
\* an exception of parse() is not caught and ends analyze_code
AfterParse ==
  /\ analyze_pc = "parse"
  /\ status \in {"returned", "raised"}
  /\ IF status = "returned"
       THEN /\ all_findings' = all_findings \o insecure_function_issues
            /\ analyze_pc' = "deduplicate"
       ELSE /\ analyze_pc' = "raised"
            /\ UNCHANGED all_findings
  /\ UNCHANGED <<final_findings, other, solo, active>>
  /\ UNCHANGED <<lexvars, parservars, arithvars>>

\* The sources given to analyze_code:
\*   int main() {\n gets(b);\n}
\*   #else\nx int f(x) {\nif (x) { gets(x); }\nint y;\nif (x) x;\nreturn 0;\n;\n}
\*   int x = atoi(argv[1]);\nint y = x + 10;
\*   int f() {\nint x;\nint y = 5;\n}
\*   int f() {\nint z[3];\n}
\*   int f() {\nif ((a) > b) x;\n}
\*   int f() {\narr[i] = 5;\n}
\*   int f() {\nf(a, b);\n}
\*   int f(int a) {\n}
\*   int f() {\nx\n#else\n;\n}
\*   int f() {\n;\ngets(b);\n}
\*   int main() {\ngets(a);\ngets(b);\n}
\*   int f() {\n#endif\n}
\*   int f() {\nif (x) }
\*   int f() { y = x + 1;\ngets(b); }
Programs ==
  { <<"i", "n", "t", " ", "m", "a", "i", "n", "(", ")", " ", "{", NL, " ", "g", "e", "t", "s", "(", "b", ")", ";", NL, "}">>,
    <<"#", "e", "l", "s", "e", NL, "x", " ", "i", "n", "t", " ", "f", "(", "x", ")", " ", "{", NL, "i", "f", " ", "(", "x", ")", " ", "{", " ", "g", "e", "t", "s", "(", "x", ")", ";", " ", "}", NL, "i", "n", "t", " ", "y", ";", NL, "i", "f", " ", "(", "x", ")", " ", "x", ";", NL, "r", "e", "t", "u", "r", "n", " ", "0", ";", NL, ";", NL, "}">>,
    <<"i", "n", "t", " ", "x", " ", "=", " ", "a", "t", "o", "i", "(", "a", "r", "g", "v", "[", "1", "]", ")", ";", NL, "i", "n", "t", " ", "y", " ", "=", " ", "x", " ", "+", " ", "1", "0", ";">>,
    <<"i", "n", "t", " ", "f", "(", ")", " ", "{", NL, "i", "n", "t", " ", "x", ";", NL, "i", "n", "t", " ", "y", " ", "=", " ", "5", ";", NL, "}">>,
    <<"i", "n", "t", " ", "f", "(", ")", " ", "{", NL, "i", "n", "t", " ", "z", "[", "3", "]", ";", NL, "}">>,
    <<"i", "n", "t", " ", "f", "(", ")", " ", "{", NL, "i", "f", " ", "(", "(", "a", ")", " ", ">", " ", "b", ")", " ", "x", ";", NL, "}">>,
    <<"i", "n", "t", " ", "f", "(", ")", " ", "{", NL, "a", "r", "r", "[", "i", "]", " ", "=", " ", "5", ";", NL, "}">>,
    <<"i", "n", "t", " ", "f", "(", ")", " ", "{", NL, "f", "(", "a", ",", " ", "b", ")", ";", NL, "}">>,
    <<"i", "n", "t", " ", "f", "(", "i", "n", "t", " ", "a", ")", " ", "{", NL, "}">>,
    <<"i", "n", "t", " ", "f", "(", ")", " ", "{", NL, "x", NL, "#", "e", "l", "s", "e", NL, ";", NL, "}">>,
    <<"i", "n", "t", " ", "f", "(", ")", " ", "{", NL, ";", NL, "g", "e", "t", "s", "(", "b", ")", ";", NL, "}">>,
    <<"i", "n", "t", " ", "m", "a", "i", "n", "(", ")", " ", "{", NL, "g", "e", "t", "s", "(", "a", ")", ";", NL, "g", "e", "t", "s", "(", "b", ")", ";", NL, "}">>,
    <<"i", "n", "t", " ", "f", "(", ")", " ", "{", NL, "#", "e", "n", "d", "i", "f", NL, "}">>,
    <<"i", "n", "t", " ", "f", "(", ")", " ", "{", NL, "i", "f", " ", "(", "x", ")", " ", "}">>,
    <<"i", "n", "t", " ", "f", "(", ")", " ", "{", " ", "y", " ", "=", " ", "x", " ", "+", " ", "1", ";", NL, "g", "e", "t", "s", "(", "b", ")", ";", " ", "}">> }

\* analyze_code(code) is called.
AnalyzeInit ==
  /\ code \in Programs
  /\ pos = 1
  /\ after_empty = FALSE
  /\ lex_tokens = <<>>
  /\ lex_starts = <<>>
  /\ line_num = 1
  /\ consumed = <<>>
  /\ lex_pc = "idle"
  /\ ParserIdle
  /\ ArithIdle
  /\ all_findings = <<>>
  /\ final_findings = None
  /\ analyze_pc = "ai"
  /\ other = None
  /\ solo = None
  /\ active = 0

\* The steps of analyze_code and of what it calls.  Of the steps of the
\* parser those that need a '[' or ']' token of type OPERATOR are left out:
\* tokenize_code gives these characters the type SEPARATOR.
AnalyzeNext ==
  \/ AnalyzeBegin
  \/ HeuristicNext
  \/ AfterArithmetic
  \/ LexNext
  \/ AfterTokenize
  \/ TokenizedNext
  \/ AfterParse
  \/ Deduplicate

AnalyzeSpec == AnalyzeInit /\ [][AnalyzeNext]_vars

(***************************************************************************)
(*                       Properties of the parser                          *)
(***************************************************************************)

\* C1: parse() returns (warnings, findings, root) and never raises, whatever
\* the token sequence, truncated and malformed ones included.
C1_ParseNeverRaises == status # "raised"

\* C2: parse() terminates on every finite token sequence, with the cursor past
\* the last token; so every loop of the parser exits after finitely many steps.
C2_ParseTerminates ==
  <>(/\ status \in {"returned", "raised"}
     /\ current_token = None
     /\ current_token_index = Len(tokens))

\* parse() has returned a Program with a function definition whose body held an
\* insecure call: the top-level, parameter, body and expression loops have run.
C2_Witness ==
  /\ status = "returned"
  /\ current_token = None
  /\ Len(tokens) >= 12
  /\ Len(parse_tree_root.children) = 1
  /\ insecure_function_issues # <<>>

C4_ConsumedInsecureIdentifierRecorded ==
  [][( /\ stack # <<>>
       /\ Top.fn \in {"parse_expression", "parse_expression_statement"}
       /\ current_token # None
       /\ current_token.type = "IDENTIFIER"
       /\ current_token.value \in insecure_functions
       /\ Cursor' > Cursor )
     => \E i \in 1..Len(insecure_function_issues') :
          /\ insecure_function_issues'[i].function = current_token.value
          /\ insecure_function_issues'[i].line = current_token.line]_vars

\* C5: an insecure call inside an if/while/for construct, in its condition or
\* in its body, has a finding by the time the parser has consumed its name.
C5_InsecureCallInControlStructureRecorded ==
  [][( /\ stack # <<>>
       /\ current_token # None
       /\ current_token.type = "IDENTIFIER"
       /\ current_token.value \in insecure_functions
       /\ Cursor + 2 <= Len(tokens)
       /\ tokens[Cursor + 2].type = "SEPARATOR"
       /\ tokens[Cursor + 2].value = LPAREN
       /\ \E k \in 1..Len(stack) :
            /\ stack[k].fn = "parse_statement"
            /\ stack[k].pc \in {"condition", "control_end"}
       /\ Cursor' > Cursor )
     => \E i \in 1..Len(insecure_function_issues') :
          /\ insecure_function_issues'[i].function = current_token.value
          /\ insecure_function_issues'[i].line = current_token.line]_vars

\* C6: once parse() has returned, every call statement f ( x ) ; of a function
\* body with f in insecure_function_info, standing right after the body's '{'
\* or after the ';' of an earlier statement, has a finding from the parser
\* with its name, its line and the table's fix and CWE.
C6_CallStatementInBodyFlagged ==
  status = "returned" =>
    \A i \in 1..Len(tokens) :
      ( /\ i > 1
        /\ i + 4 <= Len(tokens)
        /\ tokens[i].type = "IDENTIFIER"
        /\ insecure_function_info(tokens[i].value) # None
        /\ tokens[i + 1].type = "SEPARATOR" /\ tokens[i + 1].value = LPAREN
        /\ tokens[i + 2].type = "IDENTIFIER"
        /\ tokens[i + 2].value \notin insecure_functions
        /\ tokens[i + 3].type = "SEPARATOR" /\ tokens[i + 3].value = RPAREN
        /\ tokens[i + 4].type = "SEPARATOR" /\ tokens[i + 4].value = SEMI
        /\ tokens[i - 1].type = "SEPARATOR" /\ tokens[i - 1].value \in {LBRACE, SEMI}
        /\ \E h \in Headers : SubSeq(tokens, 1, Len(h)) = AtLine(h, 1)
        /\ Cardinality({k \in 1..(i - 1) : tokens[k].type = "SEPARATOR"
                                            /\ tokens[k].value = LBRACE}) = 1
        /\ Cardinality({k \in 1..(i - 1) : tokens[k].type = "SEPARATOR"
                                            /\ tokens[k].value = RBRACE}) = 0 )
      => \E j \in 1..Len(insecure_function_issues) :
           insecure_function_issues[j] =
             [function |-> tokens[i].value, line |-> tokens[i].line,
              fix |-> insecure_function_info(tokens[i].value).fix,
              cwe |-> insecure_function_info(tokens[i].value).cwe,
              source |-> "Custom Parser"]

(***************************************************************************)
(*                      Properties of the tokenizer                        *)
(***************************************************************************)

\* C7: tokenize_code terminates on every source text, and every iteration of
\* its loop consumes at least one character of the text.
C7_TokenizerTerminates ==
  /\ <>(lex_pc = "done")
  /\ [][Len(consumed') > Len(consumed) \/ lex_pc' = "done"]_lexvars

\* tokenize_code is over on a text that opens a string it never closes: the
\* quote came out as an UNKNOWN token of one character.
C7_Witness ==
  /\ lex_pc = "done"
  /\ code # <<>>
  /\ code[1] = DQ
  /\ lex_tokens # <<>>
  /\ lex_tokens[1].type = "UNKNOWN"
  /\ lex_tokens[1].value = <<DQ>>

\* C8: the lexemes matched so far, emitted or discarded, concatenated in
\* order are the text before the scanning position, and the whole text once
\* tokenize_code is over.
C8_LexemesPartitionSource ==
  /\ pos <= Len(code) + 1
  /\ consumed = SubSeq(code, 1, pos - 1)
  /\ lex_pc = "done" => consumed = code

\* tokenize_code is over on a text with a newline, with tokens emitted and
\* whitespace or a comment discarded.
C8_Witness ==
  /\ lex_pc = "done"
  /\ \E i \in 1..Len(code) : code[i] = NL
  /\ lex_tokens # <<>>
  /\ LET Total[i \in 0..Len(lex_tokens)] ==
           IF i = 0 THEN 0 ELSE Total[i - 1] + Len(lex_tokens[i].value)
     IN  Total[Len(lex_tokens)] < Len(code)

\* C9: the line numbers of the tokens are at least 1 and never decrease along
\* the sequence.
C9_LinesNonDecreasing ==
  \A i \in 1..Len(lex_tokens) :
    /\ lex_tokens[i].line >= 1
    /\ i > 1 => lex_tokens[i - 1].line <= lex_tokens[i].line

\* tokenize_code is over with two consecutive tokens on different lines.
C9_Witness ==
  /\ lex_pc = "done"
  /\ \E i \in 2..Len(lex_tokens) : lex_tokens[i - 1].line < lex_tokens[i].line

\* C10: the line of every token is 1 plus the number of newlines of the text
\* before the token's first character.
C10_LineIsLineOfFirstCharacter ==
  \A i \in 1..Len(lex_tokens) :
    lex_tokens[i].line = 1 + CountNL(SubSeq(code, 1, lex_starts[i] - 1))

\* A token on a later line that follows a token whose lexeme holds a newline.
C10_Witness ==
  /\ lex_pc = "done"
  /\ \E i \in 2..Len(lex_tokens) :
       /\ CountNL(lex_tokens[i - 1].value) > 0
       /\ lex_tokens[i].line > lex_tokens[i - 1].line

(***************************************************************************)
(*                    Properties of the aggregation                        *)
(***************************************************************************)

\* C11: the output of _deduplicate_findings has exactly one finding for each
\* key (line_number, lowercase title) of its input: no key twice, no key of
\* the input missing, and every finding of the output is one of the input.
C11_OneFindingPerKey ==
  analyze_pc = "done" =>
    /\ \A i, j \in 1..Len(final_findings) :
         finding_key(final_findings[i]) = finding_key(final_findings[j]) => i = j
    /\ \A i \in 1..Len(all_findings) :
         \E j \in 1..Len(final_findings) :
           finding_key(final_findings[j]) = finding_key(all_findings[i])
    /\ \A j \in 1..Len(final_findings) :
         \E i \in 1..Len(all_findings) : final_findings[j] = all_findings[i]

\* Two findings on one line whose titles differ in letter case only, one of
\* them with a type of its own, came out as one finding.
C11_Witness ==
  /\ analyze_pc = "done"
  /\ Len(all_findings) = 2
  /\ all_findings[1].title # all_findings[2].title
  /\ "type" \in DOMAIN all_findings[2]
  /\ "type" \notin DOMAIN all_findings[1]
  /\ Len(final_findings) = 1

\* C12: for a repeated key the finding kept is the first of its findings that
\* has a non-empty suggestion and, if none has one, the first of its findings.
C12_NonEmptySuggestionKept ==
  analyze_pc = "done" =>
    \A j \in 1..Len(final_findings) :
      LET same == {i \in 1..Len(all_findings) :
                     finding_key(all_findings[i]) = finding_key(final_findings[j])}
          filled == {i \in same : /\ "suggestion" \in DOMAIN all_findings[i]
                                  /\ all_findings[i].suggestion # ""}
      IN  final_findings[j] =
            all_findings[IF filled # {} THEN Min(filled) ELSE Min(same)]

(***************************************************************************)
(*                 Properties of the arithmetic heuristic                  *)
(***************************************************************************)

\* C13: when _analyze_arithmetic_operations has returned, every match of an
\* arithmetic pattern on a line has its outcome decided by two facts only,
\* whether one of its identifiers is in the taint set and whether the context
\* of the line has a bounds-check signal: with a signal the line has no
\* finding, without one it has one High finding for each tainted match and one
\* Medium finding for each other match, and there is no other finding.  So
\* `int x = atoi(argv[1]);` followed by `int y = x + 10;` has a High finding
\* on line 2, and with `if (x < 100) {` between the two there is no finding.
C13_DecisionRule ==
  arith_pc = "done" =>
    /\ \A L \in 1..Len(lines) :
         LET ms == [k \in 1..Len(arithmetic_patterns) |->
                      findall(arithmetic_patterns[k].pattern, lines[L], 1)]
             hits == UNION {{<<k, n>> : n \in 1..Len(ms[k])} :
                              k \in 1..Len(arithmetic_patterns)}
             tainted(h) == op_vars(ms[h[1]][h[2]]) \cap input_variables # {}
             signal == has_bounds_check(context(lines, L))
             count(sev) == Cardinality({i \in 1..Len(vulnerabilities) :
                                          /\ vulnerabilities[i].line_number = L
                                          /\ vulnerabilities[i].severity = sev})
         IN  /\ count("High") =
                  IF signal THEN 0 ELSE Cardinality({h \in hits : tainted(h)})
             /\ count("Medium") =
                  IF signal THEN 0 ELSE Cardinality({h \in hits : ~tainted(h)})
    /\ \A i \in 1..Len(vulnerabilities) :
         /\ vulnerabilities[i].severity \in {"High", "Medium"}
         /\ vulnerabilities[i].line_number \in 1..Len(lines)
    /\ code = SourceLines[1] \o <<NL>> \o SourceLines[2] =>
         \E i \in 1..Len(vulnerabilities) :
           /\ vulnerabilities[i].line_number = 2
           /\ vulnerabilities[i].severity = "High"
    /\ code = SourceLines[1] \o <<NL>> \o SourceLines[3] \o <<NL>> \o SourceLines[2]
                \o <<NL>> \o SourceLines[4] =>
         vulnerabilities = <<>>

\* The call on `int x = atoi(argv[1]);` and `int y = x + 10;` has returned,
\* with x in the taint set and a High finding on line 2.
C13_Witness ==
  /\ arith_pc = "done"
  /\ code = SourceLines[1] \o <<NL>> \o SourceLines[2]
  /\ <<"x">> \in input_variables
  /\ \E i \in 1..Len(vulnerabilities) :
       /\ vulnerabilities[i].line_number = 2
       /\ vulnerabilities[i].severity = "High"

\* C14: when _analyze_arithmetic_operations has returned, a line L of the N
\* lines that has a match of an arithmetic pattern has a finding exactly when
\* the lines max(1, L-2) .. min(N, L+2), joined by line feeds, have no
\* bounds-check signal; a signal on a line within two lines of L suppresses
\* the findings of L and a signal further away does not count.
C14_WindowTwoLinesEachSide ==
  arith_pc = "done" =>
    \A L \in 1..Len(lines) :
      LET N == Len(lines)
          first == IF L - 2 > 1 THEN L - 2 ELSE 1
          last == IF L + 2 < N THEN L + 2 ELSE N
          RECURSIVE window(_)
          window(j) == IF j > last THEN <<>>
                       ELSE lines[j] \o (IF j < last THEN <<NL>> ELSE <<>>) \o window(j + 1)
          has_match == \E k \in 1..Len(arithmetic_patterns) :
                         findall(arithmetic_patterns[k].pattern, lines[L], 1) # <<>>
          has_finding == \E i \in 1..Len(vulnerabilities) :
                           vulnerabilities[i].line_number = L
      IN  /\ has_finding => has_match
          /\ has_match => (has_finding <=> ~has_bounds_check(window(first)))
          /\ has_match /\ (\E j \in first..last : has_bounds_check(lines[j])) => ~has_finding

\* A call on four lines has returned: the only bounds check is on line 1 and
\* line 4, three lines below, has a match and a finding.
C14_Witness ==
  /\ arith_pc = "done"
  /\ Len(lines) = 4
  /\ has_bounds_check(lines[1])
  /\ ~has_bounds_check(context(lines, 4))
  /\ \E i \in 1..Len(vulnerabilities) : vulnerabilities[i].line_number = 4

\* C27: when analyze_code has deduplicated, every finding that the parser
\* recorded is in the final list, unless a finding that came before it in
\* all_findings has the same line and the same title without regard to case;
\* findings of the parser for calls on different lines are all there.
C27_ParserFindingsSurvive ==
  analyze_pc = "done" =>
    \A i \in 1..Len(insecure_function_issues) :
      LET finding == insecure_function_issues[i]
          first == Len(all_findings) - Len(insecure_function_issues)
          has(f, key) == key \in DOMAIN f
          line_of(f) == IF has(f, "line_number") THEN PyInt(f.line_number)
                        ELSE IF has(f, "line") THEN PyInt(f.line) ELSE None
          title_of(f) == IF has(f, "title") THEN lower(f.title)
                         ELSE IF has(f, "function") THEN lower(f.function) ELSE <<>>
          same(f) == line_of(f) = line_of(finding) /\ title_of(f) = title_of(finding)
      IN  \/ \E k \in 1..Len(final_findings) : final_findings[k] = finding
          \/ \E k \in 1..(first + i - 1) : same(all_findings[k])

\* C28: the final list of analyze_code has one finding for each key of the
\* concatenated input (the AI findings, then the heuristic's, then the pattern
\* matching's, then the parser's), in the order in which the keys occur first
\* there: a finding that replaced an earlier one with its key stands where
\* that one stood, and findings with different keys keep their order.
C28_OrderOfFirstOccurrence ==
  analyze_pc = "done" =>
    LET key(i) == finding_key(all_findings[i])
        firsts == {i \in 1..Len(all_findings) : \A j \in 1..(i - 1) : key(j) # key(i)}
        nth(r) == CHOOSE i \in firsts : Cardinality({j \in firsts : j < i}) = r - 1
    IN  /\ \E ai_findings \in AIFindings :
             all_findings = ai_findings \o vulnerabilities
                              \o analyze_with_pattern_matching(code)
                              \o insecure_function_issues
        /\ Len(final_findings) = Cardinality(firsts)
        /\ \A r \in 1..Len(final_findings) :
             /\ finding_key(final_findings[r]) = key(nth(r))
             /\ \E i \in 1..Len(all_findings) : all_findings[i] = final_findings[r]

\* analyze_code has returned a list in which the pattern matching's finding
\* for line 2 stands first, where the AI finding with the same key (and no
\* suggestion) stood, before the finding of the heuristic that came between the
\* two in the input.
C28_Witness ==
  /\ analyze_pc = "done"
  /\ Len(final_findings) >= 2
  /\ "type" \in DOMAIN final_findings[2]
  /\ final_findings[2].type = "arithmetic_vulnerability"
  /\ final_findings[2] = all_findings[2]
  /\ Len(all_findings) > Len(final_findings)
  /\ "suggestion" \notin DOMAIN all_findings[1]
  /\ "type" \in DOMAIN final_findings[1]
  /\ finding_key(final_findings[1]) = finding_key(all_findings[1])
  /\ final_findings[1] # all_findings[1]

\* The names that the taint patterns find on the lines ls[1..n].
TaintedNames(ls, n) ==
  UNION { LET found == findall(input_patterns[k], ls[i], 1)
          IN  {found[m][1] : m \in 1..Len(found)} :
          i \in 1..n, k \in 1..Len(input_patterns) }

\* C29: in every call of _analyze_arithmetic_operations the seeding loop is
\* over before the scan makes a finding, and the taint set starts empty: while
\* seeding it holds the names of the lines seen so far in this call and there
\* is no finding yet; during the scan and at the return it holds the names
\* that a taint pattern finds on any line of this call's source, before or
\* after the line scanned, and nothing from an earlier call; and the findings
\* returned are those of the decision rule with exactly these names tainted.
C29_TaintSeededBeforeScan ==
  LET ls == splitlines(code)
      names == TaintedNames(ls, Len(ls))
      RECURSIVE expected(_)
      expected(n) ==
        IF n > Len(ls) THEN <<>>
        ELSE line_vulnerabilities(ls, n, names) \o expected(n + 1)
  IN  /\ arith_pc = "seed" =>
           /\ vulnerabilities = <<>>
           /\ input_variables = TaintedNames(ls, arith_line - 1)
      /\ arith_pc \in {"scan", "done"} => input_variables = names
      /\ arith_pc = "done" => vulnerabilities = expected(1)

\* A call on `int y = x + 10;` alone has returned a Medium finding, with an
\* empty taint set, after an earlier call in which x was tainted.
C29_Witness ==
  /\ arith_pc = "done"
  /\ solo = [taint |-> {<<"x">>}]
  /\ code = SourceLines[2]
  /\ input_variables = {}
  /\ Len(vulnerabilities) = 1
  /\ vulnerabilities[1].severity = "Medium"

(***************************************************************************)
(*               Properties of the parse tree and of recovery              *)
(***************************************************************************)

\* C15: the Program node is created once, at the start of parse(), and is the
\* node that parse() stores and returns: the root attribute is None until
\* parse() returns and is then a non-terminal node named 'Program'; for an
\* empty token sequence that node has no children and there are no warnings
\* and no findings.
C15_RootIsProgram ==
  /\ \A i \in 1..Len(stack) :
       stack[i].fn = "parse" =>
         /\ i = Len(stack)
         /\ stack[i].pc = "begin" <=> stack[i].node = None
         /\ stack[i].node # None =>
              stack[i].node.name = "Program" /\ ~stack[i].node.is_terminal
  /\ status # "returned" => parse_tree_root = None
  /\ status = "returned" =>
       /\ parse_tree_root # None
       /\ parse_tree_root.name = "Program"
       /\ ~parse_tree_root.is_terminal
       /\ parse_tree_root.value = None
       /\ tokens = <<>> =>
            /\ parse_tree_root.children = <<>>
            /\ warnings = <<>>
            /\ insecure_function_issues = <<>>

\* parse() has returned for the empty token sequence.
C15_Witness ==
  /\ status = "returned"
  /\ tokens = <<>>
  /\ parse_tree_root = ParseTreeNode("Program")

\* C16: for the tokens of `int main() { return 0; }` parse() does not raise,
\* and when it has returned there is no warning, the Program node has exactly
\* one child, a FunctionDefinition with one FunctionBody, and the FunctionBody
\* has exactly one Statement child, the statement that the return branch
\* built, ended by the ';' of the return statement, and after it the '}'.
C16_SingleReturnStatement ==
  tokens = Examples[1] =>
    /\ status # "raised"
    /\ status = "returned" =>
         /\ warnings = <<>>
         /\ Len(parse_tree_root.children) = 1
         /\ LET def == parse_tree_root.children[1]
                bodies == {i \in 1..Len(def.children) : def.children[i].name = "FunctionBody"}
                body == def.children[CHOOSE i \in bodies : TRUE]
                stmts == {i \in 1..Len(body.children) : body.children[i].name = "Statement"}
                stmt == body.children[CHOOSE i \in stmts : TRUE]
            IN  /\ def.name = "FunctionDefinition"
                /\ Cardinality(bodies) = 1
                /\ Cardinality(stmts) = 1
                /\ Len(body.children) = 2
                /\ body.children[2] = TerminalNode(Sep(RBRACE))
                /\ stmt.children[Len(stmt.children)] = TerminalNode(Sep(SEMI))
                /\ \E i \in 1..Len(stmt.children) : stmt.children[i].name = "Expression"

\* parse() has returned for the tokens of `int main() { return 0; }`.
C16_Witness ==
  /\ tokens = Examples[1]
  /\ status = "returned"
  /\ Len(parse_tree_root.children) = 1

\* C17: when parse() has ended for an input that opens a function body and has
\* no '}' at all, it has returned and its warnings have one that names the
\* unclosed function body.
C17_UnclosedBodyWarned ==
  ( /\ status # "running"
    /\ Len(tokens) >= 6
    /\ SubSeq(tokens, 1, 6) \in {AtLine(h, 1) : h \in Headers}
    /\ \A i \in 1..Len(tokens) :
         ~(tokens[i].type = "SEPARATOR" /\ tokens[i].value = RBRACE) )
  => /\ status = "returned"
     /\ \E i \in 1..Len(warnings) : warnings[i].message = "Unclosed function body"

\* C18: a step of the top-level loop taken at a token that does not start a
\* function definition adds warnings, moves the cursor by exactly one token
\* and leaves parse() running in its loop; and for the tokens of
\* `x int f() { }`, where a function definition starts right after the
\* skipped token, parse() returns a Program with that FunctionDefinition.
C18_TopLevelSkipsOneToken ==
  /\ [][ ( /\ At("parse", "loop")
           /\ current_token # None
           /\ ~StartsFunction(Self) )
         => /\ Len(warnings') > Len(warnings)
            /\ SubSeq(warnings', 1, Len(warnings)) = warnings
            /\ Cursor' = Cursor + 1
            /\ status' = "running"
            /\ stack'[Len(stack')].fn = "parse"
            /\ stack'[Len(stack')].pc = "loop" ]_vars
  /\ [](tokens = Examples[2] =>
          /\ status # "raised"
          /\ status = "returned" =>
               /\ Len(parse_tree_root.children) = 1
               /\ parse_tree_root.children[1].name = "FunctionDefinition"
               /\ parse_tree_root.children[1].children[2] = TerminalNode(Id(<<"f">>))
               /\ Len(warnings) = 2)

\* parse() has returned for the tokens of `x int f() { }`: x was skipped with
\* warnings and the function definition after it is in the tree.
C18_Witness ==
  /\ tokens = Examples[2]
  /\ status = "returned"
  /\ warnings # <<>>
  /\ Len(parse_tree_root.children) = 1

\* C19: two invocations that run interleaved do not affect each other.
\* Whatever the interleaving, invocation 1 ends with what the same work gave
\* when it ran alone (status, warnings, findings and tree of a Parser; taint
\* set and findings of a heuristic call), and a step of the running
\* invocation leaves everything that belongs to the other one as it was.  The
\* class-level insecure_functions and insecure_function_info are written by
\* no step: they are constants of this module.
C19_InvocationsIndependent ==
  /\ [](/\ active = 1 /\ Result(Invocation) # None => Result(Invocation) = solo
        /\ active = 2 /\ Result(other) # None => Result(other) = solo)
  /\ [][active' = active => other' = other]_vars

\* Invocation 1 is over, with the findings and warnings it had alone, while
\* invocation 2, a Parser as well, is in the middle of a function body.
C19_Witness ==
  /\ active = 1
  /\ Result(Invocation) # None
  /\ Result(Invocation) = solo
  /\ insecure_function_issues # <<>>
  /\ warnings # <<>>
  /\ other.status = "running"
  /\ Len(other.stack) > 2
  /\ other.current_token_index > 6

\* C20: every finding of the final list of analyze_code that a detector of the
\* program made (the arithmetic heuristic, the pattern matching or the parser)
\* has a severity that is one of Critical, High, Medium and Low, and a
\* line_number between 1 and the number of lines of the source.
C20_FindingsHaveSeverityAndLine ==
  analyze_pc = "done" =>
    \A i \in 1..Len(final_findings) :
      LET finding == final_findings[i]
      IN  "type" \in DOMAIN finding \/ "source" \in DOMAIN finding =>
            /\ "severity" \in DOMAIN finding
            /\ finding.severity \in {"Critical", "High", "Medium", "Low"}
            /\ "line_number" \in DOMAIN finding
            /\ finding.line_number \in 1..Len(splitlines(code))

(***************************************************************************)
(*          Properties of statements, expressions and brace matching       *)
(***************************************************************************)

\* tokens[i] is the separator v
IsSeparatorAt(i, v) ==
  /\ i \in 1..Len(tokens)
  /\ tokens[i].type = "SEPARATOR"
  /\ tokens[i].value = v

\* There is a ';' at or after tokens[i]
HasSemicolonFrom(i) == \E j \in i..Len(tokens) : IsSeparatorAt(j, SEMI)

\* ... and the position of the first one
FirstSemicolonFrom(i) == Min({j \in i..Len(tokens) : IsSeparatorAt(j, SEMI)})

\* tokens[i] starts a declaration of one of the forms  T id ;   T id [ size ] ;
\* T id = expr ;
DeclarationAt(i) ==
  /\ i + 2 <= Len(tokens)
  /\ IsDeclaration(tokens[i])
  /\ tokens[i + 1].type = "IDENTIFIER"
  /\ \/ IsSeparatorAt(i + 2, SEMI)
     \/ /\ tokens[i + 2].value = LSQUARE
        /\ \E j \in (i + 3)..(Len(tokens) - 1) :
             /\ tokens[j].value = RSQUARE
             /\ IsSeparatorAt(j + 1, SEMI)
             /\ \A k \in (i + 3)..(j - 1) : tokens[k].type \in {"NUMBER", "IDENTIFIER"}
     \/ /\ tokens[i + 2].type = "OPERATOR"
        /\ tokens[i + 2].value = <<"=">>
        /\ HasSemicolonFrom(i + 4)
        /\ \A k \in (i + 3)..(FirstSemicolonFrom(i + 4) - 1) :
             tokens[k].type \in {"NUMBER", "IDENTIFIER", "OPERATOR"}

\* C21: parse_statement(), called at a declaration  T id ;  T id [ size ] ;
\* or  T id = expr ;  of the tokens that tokenize_code made, returns a
\* Statement node that ends with the declaration's ';', with the cursor right
\* after that ';' and without a new warning.
C21_DeclarationIsOneStatement ==
  [][ ( /\ analyze_pc = "parse"
        /\ At("parse_statement", "begin")
        /\ DeclarationAt(Cursor + 1) )
      => /\ Len(stack') < Len(stack)
         /\ ret' # None
         /\ ret'.name = "Statement"
         /\ ret'.children[Len(ret'.children)] = TerminalNode(Sep(SEMI))
         /\ Cursor' = FirstSemicolonFrom(Cursor + 1)
         /\ warnings' = warnings ]_vars

\* How many of tokens[a..b] are the separator v
CountSeparators(a, b, v) == Cardinality({k \in a..b : IsSeparatorAt(k, v)})

\* tokens[j] is the ')' that matches the '(' at tokens[i]
MatchesParenAt(i, j) ==
  /\ j > i
  /\ IsSeparatorAt(j, RPAREN)
  /\ CountSeparators(i, j, LPAREN) = CountSeparators(i, j, RPAREN)
  /\ \A k \in i..(j - 1) : CountSeparators(i, k, LPAREN) > CountSeparators(i, k, RPAREN)

\* C22: when parse_statement() has consumed the condition of an if / while /
\* for and its ')' and turns to the body, the ')' it consumed is the one that
\* matches the '(' of the condition, nested parentheses included.
C22_ConditionEndsAtMatchingParen ==
  ( /\ analyze_pc = "parse"
    /\ At("parse_statement", "control_body")
    /\ Len(Top.node.children) = 4 )
  => MatchesParenAt(Top.mark + 2, Cursor)

\* tokens[i..j-1] is an expression that ends at the ';' at tokens[j]: no ';'
\* and no brace in it, and its '(' ')' and '[' ']' nest properly.
RECURSIVE NestsFrom(_, _, _)
NestsFrom(i, j, open) ==
  IF i >= j THEN open = <<>>
  ELSE IF tokens[i].type = "SEPARATOR" /\ tokens[i].value \in {LPAREN, LSQUARE}
    THEN NestsFrom(i + 1, j, <<tokens[i].value>> \o open)
  ELSE IF tokens[i].type = "SEPARATOR" /\ tokens[i].value \in {RPAREN, RSQUARE}
    THEN /\ open # <<>>
         /\ open[1] = (IF tokens[i].value = RPAREN THEN LPAREN ELSE LSQUARE)
         /\ NestsFrom(i + 1, j, Tail(open))
  ELSE /\ ~(tokens[i].type = "SEPARATOR" /\ tokens[i].value \in {SEMI, LBRACE, RBRACE})
       /\ tokens[i].type \in {"IDENTIFIER", "NUMBER", "STRING", "OPERATOR", "SEPARATOR"}
       /\ NestsFrom(i + 1, j, open)

ExpressionStatementAt(i) ==
  /\ i \in 1..Len(tokens)
  /\ HasSemicolonFrom(i + 1)
  /\ NestsFrom(i, FirstSemicolonFrom(i + 1), <<>>)

\* C23: parse_expression_statement(), called at an expression statement of the
\* tokens that tokenize_code made whose '(' ')' and '[' ']' nest properly,
\* returns an ExpressionStatement with the cursor right after the statement's
\* ';': the nested brackets and the commas inside them are consumed with it,
\* as in  arr[i] = 5;  and  f(a, b);
C23_ExpressionConsumedToSemicolon ==
  [][ ( /\ analyze_pc = "parse"
        /\ At("parse_expression_statement", "end")
        /\ ExpressionStatementAt(Top.mark + 1) )
      => /\ ret' # None
         /\ ret'.name = "ExpressionStatement"
         /\ Cursor' = FirstSemicolonFrom(Top.mark + 1) ]_vars

\* The terminal nodes of a tree, left to right.
RECURSIVE Leaves(_)
Leaves(node) ==
  IF node.is_terminal THEN <<node>>
  ELSE LET sub == [i \in 1..Len(node.children) |-> Leaves(node.children[i])]
           RECURSIVE flat(_)
           flat(i) == IF i > Len(sub) THEN <<>> ELSE sub[i] \o flat(i + 1)
       IN  flat(1)

\* C24: the FunctionDefinition node that parse_function_definition() returns
\* has as its terminal leaves, left to right, the tokens the parser consumed
\* for the definition, each once and in order.
C24_LeavesAreConsumedTokens ==
  [][ ( /\ At("parse_function_definition", "after_body")
        /\ ret # None )
      => Leaves(ret') = [i \in 1..(Cursor - Top.mark) |-> TerminalNode(tokens[Top.mark + i])]
    ]_vars

\* The line of the character at position p of the source (1-based).
LineOfPosition(p) == 1 + Cardinality({q \in 1..(p - 1) : code[q] = NL})

\* C25, the tokenizer: no token that tokenize_code emits has the type
\* WHITESPACE or COMMENT, and when it has returned, every line of the source
\* that starts with a preprocessor directive has a PREPROCESSOR token.
C25_TokenizerKeepsPreprocessorOnly ==
  /\ \A i \in 1..Len(lex_tokens) : lex_tokens[i].type \notin {"WHITESPACE", "COMMENT"}
  /\ lex_pc = "done" =>
       \A p \in 1..Len(code) :
         (p = 1 \/ code[p - 1] = NL) /\ PreprocessorLen(code, p) > 0 =>
           \E i \in 1..Len(lex_tokens) :
             /\ lex_tokens[i].type = "PREPROCESSOR"
             /\ lex_tokens[i].line = LineOfPosition(p)

\* C25, the parser: when parse() has returned, every PREPROCESSOR token of its
\* tokens has exactly one warning 'Skipping preprocessor' with the token's
\* line, and no leaf of the tree is a PREPROCESSOR token.
C25_ParserSkipsPreprocessor ==
  analyze_pc = "parse" /\ status = "returned" =>
    /\ \A i \in 1..Len(tokens) :
         tokens[i].type = "PREPROCESSOR" =>
           Cardinality({k \in 1..Len(warnings) :
                          warnings[k] = [line |-> tokens[i].line,
                                         message |-> "Skipping preprocessor"]}) = 1
    /\ \A k \in 1..Len(Leaves(parse_tree_root)) :
         Leaves(parse_tree_root)[k].name # "PREPROCESSOR"

\* C25: whitespace and comments never appear among the emitted tokens and a
\* preprocessor line is emitted as a PREPROCESSOR token; every PREPROCESSOR
\* token given to the parser is skipped with exactly one 'Skipping
\* preprocessor' warning that carries its line, and is not in the parse tree.
C25_PreprocessorSkippedWithWarning ==
  C25_TokenizerKeepsPreprocessorOnly /\ C25_ParserSkipsPreprocessor

LastWarningIs(message) ==
  warnings # <<>> /\ warnings[Len(warnings)].message = message

\* C26: in the loop of parse_function_body(), when parse_statement() has
\* skipped a token that cannot start a statement and returned None, the body
\* loop skips no further token: the token after the skipped one is the current
\* token when parse_statement() is called next.
C26_RecoverySkipsOneToken ==
  [][ ( /\ At("parse_function_body", "after_stmt")
        /\ ret = None
        /\ Cursor = Top.iter + 1
        /\ LastWarningIs("Skipping unknown/unhandled token as statement") )
      => Cursor' = Cursor ]_vars

\* C30: while a function body or a block of a control structure is open, a
\* step that moves the cursor past a '}' is the step of parse_function_body()
\* that closes the innermost open body and returns its node; no other step
\* consumes a '}', as a token of a statement or as a token to skip.
C30_BraceClosesInnermostBody ==
  [][ ( /\ status = "running"
        /\ \E k \in 1..Len(stack) : stack[k].fn = "parse_function_body"
        /\ matches(Self, "SEPARATOR", RBRACE)
        /\ Cursor' > Cursor )
      => /\ At("parse_function_body", "loop")
         /\ Len(stack') < Len(stack)
         /\ ret' # None
         /\ ret'.name = "FunctionBody"
         /\ Cursor' = Cursor + 1 ]_vars

====
